---- MODULE Spec2Model ----
(***************************************************************************)
(* Dancing-links exact cover (Algorithm X): the two-phase matrix builder,  *)
(* the index-linked matrix with cover / uncover, the row iterator and the  *)
(* iterative solver, modelled from the Rust sources.                       *)
(*                                                                         *)
(* Cells and columns live in vectors addressed from 0, so they are         *)
(* functions over 0..n-1.  A cell's row is 0 for CellRow::Header and the   *)
(* row number for CellRow::Data.  Option values are records with a `some`  *)
(* flag.  A panic (a failed unwrap, an out-of-bounds index) moves the      *)
(* machine to phase "panicked".                                            *)
(***************************************************************************)
EXTENDS Integers, Sequences, FiniteSets, TLC

VARIABLES
    phase,        \* "cols" | "rows" | "built" | "solving" | "done" | "panicked"
    columns,      \* MatrixColBuilder.columns: the declared ColumnSpecs
    proto,        \* MatrixRowBuilder.matrix: the ProtoMatrix under construction
    matrix,       \* the DancingLinksMatrix (after build)
    added,        \* history: the column ids of every row the builder accepted
    last,         \* history: the builder call made last (operation, input, matrix before)
    it_last,      \* RowIterator.last
    it_out,       \* history: what RowIterator::next returned so far
    choose_min,   \* IterativeAlgorithmXSolver.choose_min
    return_first, \* IterativeAlgorithmXSolver.return_first
    stack,        \* solve(): stack
    advance,      \* solve(): advance
    sol_dict,     \* solve(): sol_dict
    solutions,    \* solve(): solutions
    steps,        \* history: passes of the loop of solve() made so far
    covered,      \* history: columns covered and not yet uncovered, innermost last
    snaps,        \* history: the matrix as it was before each cover of `covered`
    columns_queue \* DancingLinksMatrix.columns_queue: column index -> priority

vars == <<phase, columns, proto, matrix, added, last, it_last, it_out,
          choose_min, return_first, stack, advance, sol_dict, solutions, steps,
          covered, snaps, columns_queue>>

builderVars == <<columns, proto, added, last>>
iterVars    == <<it_last, it_out>>
solverVars  == <<choose_min, return_first, stack, advance, sol_dict, solutions, steps>>
coverVars   == <<covered, snaps, columns_queue>>

(***************************************************************************)
(* Bounds of the model.                                                    *)
(***************************************************************************)
MaxCols   == 3   \* declared columns per schema
MaxRows   == 2   \* rows per matrix in the builder specification
MaxRowLen == 2   \* items per row handed to the builder
MaxName   == 2   \* item names are 1..MaxName; MaxName + 1 is carried by no column
SolveRows == 3   \* rows per matrix handed to the solver

Names == 1..MaxName

(***************************************************************************)
(* Vectors addressed from 0.                                               *)
(***************************************************************************)
Len0(f) == Cardinality(DOMAIN f)

Push0(f, x) == [i \in 0..Len0(f) |-> IF i < Len0(f) THEN f[i] ELSE x]

Empty0 == [i \in {} |-> 0]

None == [some |-> FALSE, v |-> 0]

Some(x) == [some |-> TRUE, v |-> x]

(***************************************************************************)
(* cells.rs: rows, names, prototype cells and columns.                     *)
(***************************************************************************)
Header == 0

CellRowFrom(index) == index

First == [tag |-> "First", name |-> 0]

Other(v) == [tag |-> "Other", name |-> v]

ProtoCellNew(index, column, row) ==
    [index |-> index, up |-> index, down |-> index, left |-> index,
     right |-> index, column |-> column, row |-> row]

ProtoColumnNew(index, name, primary) ==
    [index |-> index, name |-> name, size |-> 0, primary |-> primary]

ColumnSpecPrimary(name) == [name |-> name, primary |-> TRUE]

ColumnSpecSecondary(name) == [name |-> name, primary |-> FALSE]

(***************************************************************************)
(* builders.rs: ProtoMatrix.                                               *)
(***************************************************************************)
NoMatrix == [row_count |-> 0, column_count |-> 0, columns |-> Empty0, cells |-> Empty0]

PM_add_cell(mx, column, row) ==
    [mx EXCEPT !.cells = Push0(@, ProtoCellNew(Len0(mx.cells), column, row))]

PM_add_column(mx, name, primary) ==
    LET column_index == Len0(mx.columns)
        m1 == PM_add_cell(mx, column_index, Header)
    IN  [m1 EXCEPT !.columns = Push0(@, ProtoColumnNew(column_index, name, primary))]

link_horizontal(mx, left, right) ==
    [mx EXCEPT !.cells = [@ EXCEPT ![left].right = right, ![right].left = left]]

link_vertical(mx, up, down) ==
    [mx EXCEPT !.cells = [@ EXCEPT ![up].down = down, ![down].up = up]]

(***************************************************************************)
(* builders.rs: MatrixColBuilder::end_columns.  The loop over the specs,   *)
(* carrying prev_index; the closing link to the first column ends it.      *)
(***************************************************************************)
\* the loop that links every column into the ring, secondary ones included
RECURSIVE end_columns_loop_link_all(_, _, _, _)
end_columns_loop_link_all(mx, specs, i, prev_index) ==
    IF i > Len(specs)
    THEN link_horizontal(mx, prev_index, 0)
    ELSE LET col_index == Len0(mx.columns)
             m1 == PM_add_column(mx, Other(specs[i].name), specs[i].primary)
         IN  end_columns_loop_link_all(link_horizontal(m1, prev_index, col_index),
                                       specs, i + 1, col_index)

RECURSIVE end_columns_loop(_, _, _, _)
end_columns_loop(mx, specs, i, prev_index) ==
    IF i > Len(specs)
    THEN link_horizontal(mx, prev_index, 0)
    ELSE LET col_index == Len0(mx.columns)
             m1 == PM_add_column(mx, Other(specs[i].name), specs[i].primary)
         IN  IF specs[i].primary
             THEN end_columns_loop(link_horizontal(m1, prev_index, col_index),
                                   specs, i + 1, col_index)
             ELSE end_columns_loop(m1, specs, i + 1, prev_index)

\* end_columns without the check for an empty column list
end_columns_unchecked(specs) ==
    LET m0 == [row_count |-> 0, column_count |-> Len(specs),
               columns |-> Empty0, cells |-> Empty0]
        m1 == PM_add_column(m0, First, TRUE)
    IN  [ok |-> TRUE, mx |-> end_columns_loop(m1, specs, 1, 0)]

end_columns(specs) ==
    IF Len(specs) = 0
    THEN [ok |-> FALSE, mx |-> NoMatrix]
    ELSE LET m0 == [row_count |-> 0, column_count |-> Len(specs),
                    columns |-> Empty0, cells |-> Empty0]
             m1 == PM_add_column(m0, First, TRUE)
         IN  [ok |-> TRUE, mx |-> end_columns_loop(m1, specs, 1, 0)]

(***************************************************************************)
(* builders.rs: MatrixBuilder::from_iterable.  The specs are collected     *)
(* into a MatrixColBuilder by add_column, one by one, and end_columns      *)
(* closes it.                                                              *)
(***************************************************************************)
from_iterable(specs) == end_columns(specs)

(***************************************************************************)
(* builders.rs: MatrixRowBuilder::_add_sorted_row.  Indexing mx.columns    *)
(* past its end panics, after the cell was pushed; an empty row panics at  *)
(* cur_index.unwrap().  The result carries the matrix as the panic left it.*)
(***************************************************************************)
\* the loop that closes a row of no cells as it closes any other row
RECURSIVE add_sorted_row_loop_accept_empty(_, _, _, _, _)
add_sorted_row_loop_accept_empty(mx, row, i, prev_index, start_index) ==
    IF i > Len(row)
    THEN IF ~prev_index.some
         THEN [ok |-> TRUE, mx |-> [mx EXCEPT !.row_count = @ + 1]]
         ELSE [ok |-> TRUE,
               mx |-> [link_horizontal(mx, prev_index.v, start_index.v)
                          EXCEPT !.row_count = @ + 1]]
    ELSE LET col_index == row[i]
             new_cell_index == Len0(mx.cells)
             m1 == PM_add_cell(mx, col_index, CellRowFrom(mx.row_count + 1))
             m2 == IF prev_index.some
                   THEN link_horizontal(m1, prev_index.v, new_cell_index)
                   ELSE m1
             start == IF prev_index.some THEN start_index ELSE Some(new_cell_index)
         IN  IF col_index \notin DOMAIN mx.columns
             THEN [ok |-> FALSE, mx |-> m2]
             ELSE LET m3 == [m2 EXCEPT !.columns[col_index].size = @ + 1]
                      lastc == m3.cells[col_index].up
                      m4 == link_vertical(m3, new_cell_index, col_index)
                      m5 == link_vertical(m4, lastc, new_cell_index)
                  IN  add_sorted_row_loop_accept_empty(m5, row, i + 1,
                                                       Some(new_cell_index), start)

\* the loop that puts each new cell at the top of its column, under the header
RECURSIVE add_sorted_row_loop_prepend(_, _, _, _, _)
add_sorted_row_loop_prepend(mx, row, i, prev_index, start_index) ==
    IF i > Len(row)
    THEN IF ~prev_index.some
         THEN [ok |-> FALSE, mx |-> mx]
         ELSE [ok |-> TRUE,
               mx |-> [link_horizontal(mx, prev_index.v, start_index.v)
                          EXCEPT !.row_count = @ + 1]]
    ELSE LET col_index == row[i]
             new_cell_index == Len0(mx.cells)
             m1 == PM_add_cell(mx, col_index, CellRowFrom(mx.row_count + 1))
             m2 == IF prev_index.some
                   THEN link_horizontal(m1, prev_index.v, new_cell_index)
                   ELSE m1
             start == IF prev_index.some THEN start_index ELSE Some(new_cell_index)
         IN  IF col_index \notin DOMAIN mx.columns
             THEN [ok |-> FALSE, mx |-> m2]
             ELSE LET m3 == [m2 EXCEPT !.columns[col_index].size = @ + 1]
                      firstc == m3.cells[col_index].down
                      m4 == link_vertical(m3, col_index, new_cell_index)
                      m5 == link_vertical(m4, new_cell_index, firstc)
                  IN  add_sorted_row_loop_prepend(m5, row, i + 1,
                                                  Some(new_cell_index), start)

RECURSIVE add_sorted_row_loop(_, _, _, _, _)
add_sorted_row_loop(mx, row, i, prev_index, start_index) ==
    IF i > Len(row)
    THEN IF ~prev_index.some
         THEN [ok |-> FALSE, mx |-> mx]
         ELSE [ok |-> TRUE,
               mx |-> [link_horizontal(mx, prev_index.v, start_index.v)
                          EXCEPT !.row_count = @ + 1]]
    ELSE LET col_index == row[i]
             new_cell_index == Len0(mx.cells)
             m1 == PM_add_cell(mx, col_index, CellRowFrom(mx.row_count + 1))
             m2 == IF prev_index.some
                   THEN link_horizontal(m1, prev_index.v, new_cell_index)
                   ELSE m1
             start == IF prev_index.some THEN start_index ELSE Some(new_cell_index)
         IN  IF col_index \notin DOMAIN mx.columns
             THEN [ok |-> FALSE, mx |-> m2]
             ELSE LET m3 == [m2 EXCEPT !.columns[col_index].size = @ + 1]
                      lastc == m3.cells[col_index].up
                      m4 == link_vertical(m3, new_cell_index, col_index)
                      m5 == link_vertical(m4, lastc, new_cell_index)
                  IN  add_sorted_row_loop(m5, row, i + 1, Some(new_cell_index), start)

add_sorted_row_index(mx, row) == add_sorted_row_loop(mx, row, 1, None, None)

add_row_index(mx, row) ==
    add_sorted_row_index(mx, SortSeq(row, LAMBDA a, b : a < b))

(***************************************************************************)
(* builders.rs: MatrixRowBuilder::add_sorted_row.  One iterator over the   *)
(* columns is shared by all the values of the row (col_iter.by_ref()): the *)
(* scan for a value starts after the column the previous value matched.    *)
(***************************************************************************)
RECURSIVE scan_columns(_, _, _)
scan_columns(mx, val, pos) ==
    IF pos >= Len0(mx.columns)
    THEN None
    ELSE IF mx.columns[pos].name = Other(val)
         THEN Some(pos)
         ELSE scan_columns(mx, val, pos + 1)

RECURSIVE resolve_row(_, _, _, _, _)
resolve_row(mx, row, i, pos, to_add) ==
    IF i > Len(row)
    THEN Some(to_add)
    ELSE LET found == scan_columns(mx, row[i], pos)
         IN  IF ~found.some
             THEN None
             ELSE resolve_row(mx, row, i + 1, found.v + 1,
                              Append(to_add, mx.columns[found.v].index))

\* add_sorted_row that drops a row with a value it does not find and goes on
add_sorted_row_lenient(mx, row) ==
    LET to_add == resolve_row(mx, row, 1, 0, <<>>)
    IN  IF ~to_add.some
        THEN [ok |-> TRUE, mx |-> mx]
        ELSE add_sorted_row_index(mx, to_add.v)

add_sorted_row(mx, row) ==
    LET to_add == resolve_row(mx, row, 1, 0, <<>>)
    IN  IF ~to_add.some
        THEN [ok |-> FALSE, mx |-> mx]
        ELSE add_sorted_row_index(mx, to_add.v)

add_row(mx, row) ==
    add_sorted_row(mx, SortSeq(row, LAMBDA a, b : a < b))

(***************************************************************************)
(* builders.rs: MatrixRowBuilder::build.  Every prototype cell becomes a   *)
(* matrix cell with the same index, links and row, its column index        *)
(* becoming its header; every prototype column becomes a header record     *)
(* whose cell is the cell of the same index.                               *)
(***************************************************************************)
NoBuilt == [header_key |-> 0, rows |-> 0, columns |-> 0,
            headers |-> Empty0, cells |-> Empty0]

build(mx) ==
    [header_key |-> 0,
     rows       |-> mx.row_count,
     columns    |-> mx.column_count,
     headers    |-> [c \in DOMAIN mx.columns |->
                       [index   |-> mx.columns[c].index,
                        name    |-> mx.columns[c].name,
                        size    |-> mx.columns[c].size,
                        cell    |-> mx.columns[c].index,
                        primary |-> mx.columns[c].primary]],
     cells      |-> [k \in DOMAIN mx.cells |->
                       [index  |-> mx.cells[k].index,
                        up     |-> mx.cells[k].up,
                        down   |-> mx.cells[k].down,
                        left   |-> mx.cells[k].left,
                        right  |-> mx.cells[k].right,
                        header |-> mx.cells[k].column,
                        row    |-> mx.cells[k].row]]]

(***************************************************************************)
(* matrix.rs: CellIterator and HeaderCellIterator.  The getter is named by *)
(* its direction.  A walk yields the cells after `start` up to its return  *)
(* to `start`; one that never returns (only on a damaged ring) is cut      *)
(* after as many steps as there are cells.                                 *)
(***************************************************************************)
getter(c, dir) ==
    CASE dir = "up"    -> c.up
      [] dir = "down"  -> c.down
      [] dir = "left"  -> c.left
      [] dir = "right" -> c.right

RECURSIVE cell_walk(_, _, _, _, _)
cell_walk(m, start, current, dir, fuel) ==
    LET nxt == getter(m.cells[current], dir)
    IN  IF nxt = start \/ fuel = 0
        THEN <<>>
        ELSE <<nxt>> \o cell_walk(m, start, nxt, dir, fuel - 1)

iterate_cells(m, start, dir, include_start) ==
    (IF include_start THEN <<start>> ELSE <<>>)
        \o cell_walk(m, start, start, dir, Len0(m.cells))

(***************************************************************************)
(* matrix.rs: CellIterator, call by call.  The iterator is the record of   *)
(* its fields start, current, end and include_start; next yields the       *)
(* iterator after the call and the item returned.                          *)
(***************************************************************************)
CellIterator_new(start, include_start) ==
    [start |-> start, current |-> start, end |-> FALSE, include_start |-> include_start]

\* next that does not remember that the walk has ended
CellIterator_next_forgetful(m, dir, it) ==
    IF it.include_start /\ it.current = it.start
    THEN [it |-> [it EXCEPT !.include_start = FALSE], item |-> Some(it.current)]
    ELSE LET cur == getter(m.cells[it.current], dir)
         IN  IF cur = it.start
             THEN [it |-> [it EXCEPT !.current = cur], item |-> None]
             ELSE [it |-> [it EXCEPT !.current = cur], item |-> Some(cur)]

CellIterator_next(m, dir, it) ==
    IF it.end
    THEN [it |-> it, item |-> None]
    ELSE IF it.include_start /\ it.current = it.start
         THEN [it |-> [it EXCEPT !.include_start = FALSE], item |-> Some(it.current)]
         ELSE LET cur == getter(m.cells[it.current], dir)
              IN  IF cur = it.start
                  THEN [it |-> [it EXCEPT !.current = cur, !.end = TRUE], item |-> None]
                  ELSE [it |-> [it EXCEPT !.current = cur], item |-> Some(cur)]

RECURSIVE header_walk(_, _, _, _, _)
header_walk(m, start, current, dir, fuel) ==
    LET nxt == m.cells[getter(m.cells[m.headers[current].cell], dir)].header
    IN  IF nxt = start \/ fuel = 0
        THEN <<>>
        ELSE <<nxt>> \o header_walk(m, start, nxt, dir, fuel - 1)

\* iterate_headers that yields its start whatever include_start says
iterate_headers_from_start(m, start, dir, include_start) ==
    <<start>> \o header_walk(m, start, start, dir, Len0(m.cells))

iterate_headers(m, start, dir, include_start) ==
    (IF include_start THEN <<start>> ELSE <<>>)
        \o header_walk(m, start, start, dir, Len0(m.cells))

(***************************************************************************)
(* matrix.rs: min_column, random_column.  min_by_key keeps the first of    *)
(* several least elements.  random_column draws num from 0..columns-1 and  *)
(* takes the num-th header of the ring, which may not exist.               *)
(***************************************************************************)
RECURSIVE min_by_size(_, _, _, _)
min_by_size(m, hs, i, best) ==
    IF i > Len(hs)
    THEN best
    ELSE IF m.headers[hs[i]].size < m.headers[best].size
         THEN min_by_size(m, hs, i + 1, hs[i])
         ELSE min_by_size(m, hs, i + 1, best)

\* min_column keeping the last of several least elements
min_column_last_least(m) ==
    LET hs == iterate_headers(m, m.header_key, "right", FALSE)
        least == {i \in 1..Len(hs) :
                     \A j \in 1..Len(hs) : m.headers[hs[i]].size <= m.headers[hs[j]].size}
    IN  IF Len(hs) = 0
        THEN None
        ELSE Some(hs[CHOOSE i \in least : \A j \in least : j <= i])

min_column(m) ==
    LET hs == iterate_headers(m, m.header_key, "right", FALSE)
    IN  IF Len(hs) = 0 THEN None ELSE Some(min_by_size(m, hs, 2, hs[1]))

random_column(m, num) ==
    LET hs == iterate_headers(m, m.header_key, "right", FALSE)
    IN  IF m.columns = 0
        THEN None
        ELSE IF num + 1 > Len(hs) THEN None ELSE Some(hs[num + 1])

(***************************************************************************)
(* matrix.rs: cover and uncover.  The cells to unlink are collected first  *)
(* (the vector v), then patched one by one.  A size that would drop below  *)
(* zero (usize underflow) shows as a negative number.                      *)
(***************************************************************************)
\* the cells of the rows, the cell each row is entered by included
RECURSIVE rows_cells_with_start(_, _, _, _)
rows_cells_with_start(m, is, k, dir) ==
    IF k > Len(is)
    THEN <<>>
    ELSE iterate_cells(m, is[k], dir, TRUE) \o rows_cells_with_start(m, is, k + 1, dir)

RECURSIVE rows_cells(_, _, _, _)
rows_cells(m, is, k, dir) ==
    IF k > Len(is)
    THEN <<>>
    ELSE iterate_cells(m, is[k], dir, FALSE) \o rows_cells(m, is, k + 1, dir)

RECURSIVE cover_cells(_, _, _)
cover_cells(m, v, k) ==
    IF k > Len(v)
    THEN m
    ELSE LET cell == m.cells[v[k]]
             m1 == [m EXCEPT !.cells = [@ EXCEPT ![cell.down].up = cell.up,
                                                 ![cell.up].down = cell.down]]
         IN  cover_cells([m1 EXCEPT !.headers[cell.header].size = @ - 1], v, k + 1)

\* cover that unlinks the cells and leaves the sizes as they are
RECURSIVE cover_cells_keep_size(_, _, _)
cover_cells_keep_size(m, v, k) ==
    IF k > Len(v)
    THEN m
    ELSE LET cell == m.cells[v[k]]
         IN  cover_cells_keep_size(
                 [m EXCEPT !.cells = [@ EXCEPT ![cell.down].up = cell.up,
                                               ![cell.up].down = cell.down]], v, k + 1)

cover_keep_size(m, key) ==
    LET header_cell_index == m.headers[key].cell
        header_cell == m.cells[header_cell_index]
        m1 == [m EXCEPT !.cells = [@ EXCEPT ![header_cell.right].left = header_cell.left,
                                            ![header_cell.left].right = header_cell.right]]
        v  == rows_cells(m1, iterate_cells(m1, header_cell_index, "down", FALSE), 1, "right")
    IN  cover_cells_keep_size(m1, v, 1)

\* cover that takes the header out of the ring on one side only
cover_one_sided(m, key) ==
    LET header_cell_index == m.headers[key].cell
        header_cell == m.cells[header_cell_index]
        m1 == [m EXCEPT !.cells = [@ EXCEPT ![header_cell.left].right = header_cell.right]]
        v  == rows_cells(m1, iterate_cells(m1, header_cell_index, "down", FALSE), 1, "right")
    IN  cover_cells(m1, v, 1)

cover(m, key) ==
    LET header_cell_index == m.headers[key].cell
        header_cell == m.cells[header_cell_index]
        m1 == [m EXCEPT !.cells = [@ EXCEPT ![header_cell.right].left = header_cell.left,
                                            ![header_cell.left].right = header_cell.right]]
        v  == rows_cells(m1, iterate_cells(m1, header_cell_index, "down", FALSE), 1, "right")
    IN  cover_cells(m1, v, 1)

RECURSIVE uncover_cells(_, _, _)
uncover_cells(m, v, k) ==
    IF k > Len(v)
    THEN m
    ELSE LET cell == m.cells[v[k]]
             m1 == [m EXCEPT !.cells = [@ EXCEPT ![cell.down].up = cell.index,
                                                 ![cell.up].down = cell.index]]
         IN  uncover_cells([m1 EXCEPT !.headers[cell.header].size = @ + 1], v, k + 1)

\* uncover that restores the cells of the rows and leaves the header out of the ring
uncover_rows_only(m, key) ==
    LET header_cell_index == m.headers[key].cell
        v  == rows_cells(m, iterate_cells(m, header_cell_index, "up", FALSE), 1, "left")
    IN  uncover_cells(m, v, 1)

uncover(m, key) ==
    LET header_cell_index == m.headers[key].cell
        v  == rows_cells(m, iterate_cells(m, header_cell_index, "up", FALSE), 1, "left")
        m1 == uncover_cells(m, v, 1)
        header_cell == m1.cells[header_cell_index]
    IN  [m1 EXCEPT !.cells = [@ EXCEPT ![header_cell.right].left = header_cell_index,
                                       ![header_cell.left].right = header_cell_index]]

(***************************************************************************)
(* matrix.rs: RowIterator::next.  The scan over the cell vector from       *)
(* `last`: header cells are skipped, the cells of one data row are         *)
(* gathered, the scan breaks at the first cell of another row.  A data     *)
(* cell owned by the first column panics.                                  *)
(***************************************************************************)
\* the scan that passes over the data cells taken out of their column
RECURSIVE row_scan_live(_, _, _, _, _)
row_scan_live(m, i, cur_row, set, data_found) ==
    IF i >= Len0(m.cells)
    THEN [panic |-> FALSE, i |-> i, set |-> set, data_found |-> data_found]
    ELSE LET c == m.cells[i]
         IN  IF c.row = Header \/ m.cells[c.up].down # c.index
             THEN row_scan_live(m, i + 1, cur_row, set, data_found)
             ELSE IF cur_row.some /\ cur_row.v # c.row
                  THEN [panic |-> FALSE, i |-> i, set |-> set, data_found |-> TRUE]
                  ELSE IF m.headers[c.header].name.tag = "First"
                       THEN [panic |-> TRUE, i |-> i, set |-> set, data_found |-> TRUE]
                       ELSE row_scan_live(m, i + 1, Some(c.row),
                                          set \cup {m.headers[c.header].name.name}, TRUE)

RECURSIVE row_scan(_, _, _, _, _)
row_scan(m, i, cur_row, set, data_found) ==
    IF i >= Len0(m.cells)
    THEN [panic |-> FALSE, i |-> i, set |-> set, data_found |-> data_found]
    ELSE LET c == m.cells[i]
         IN  IF c.row = Header
             THEN row_scan(m, i + 1, cur_row, set, data_found)
             ELSE IF cur_row.some /\ cur_row.v # c.row
                  THEN [panic |-> FALSE, i |-> i, set |-> set, data_found |-> TRUE]
                  ELSE IF m.headers[c.header].name.tag = "First"
                       THEN [panic |-> TRUE, i |-> i, set |-> set, data_found |-> TRUE]
                       ELSE row_scan(m, i + 1, Some(c.row),
                                     set \cup {m.headers[c.header].name.name}, TRUE)

RowIterator_next(m, lst) ==
    IF lst >= Len0(m.cells)
    THEN [panic |-> FALSE, last |-> lst, item |-> None]
    ELSE LET r == row_scan(m, lst, None, {}, FALSE)
         IN  [panic |-> r.panic, last |-> r.i,
              item  |-> IF r.data_found THEN Some(r.set) ELSE None]

(***************************************************************************)
(* queue.rs: ColumnPriorityQueue.  The queue is the map from the index of  *)
(* a queued column to the priority it was given; a priority is the pair    *)
(* (-size, index), pairs compare lexicographically, and peek is the peek   *)
(* of priority_queue::PriorityQueue: the item of the greatest priority.    *)
(***************************************************************************)
column_priority(column) == <<0 - column.size, column.index>>

PriorityLess(p, q) == p[1] < q[1] \/ (p[1] = q[1] /\ p[2] < q[2])

CPQ_new == [c \in {} |-> <<0, 0>>]

CPQ_push(q, column) ==
    [c \in DOMAIN q \cup {column.index} |->
        IF c = column.index THEN column_priority(column) ELSE q[c]]

\* remove that leaves the column in the queue
CPQ_remove_nothing(q, column) == q

CPQ_remove(q, column) == [c \in DOMAIN q \ {column.index} |-> q[c]]

CPQ_change_priority(q, column) ==
    IF column.index \in DOMAIN q
    THEN [q EXCEPT ![column.index] = column_priority(column)]
    ELSE q

CPQ_peek(q) ==
    IF DOMAIN q = {}
    THEN None
    ELSE Some(CHOOSE c \in DOMAIN q :
                  \A d \in DOMAIN q \ {c} : PriorityLess(q[d], q[c]))

(***************************************************************************)
(* builders.rs: the queue MatrixRowBuilder::build fills: every column      *)
(* named Other(_) with primary = true, in the order of the column vector.  *)
(***************************************************************************)
\* the loop that queues every primary column, whatever its name
RECURSIVE build_queue_loop_any_name(_, _, _)
build_queue_loop_any_name(mx, q, c) ==
    IF c >= Len0(mx.columns)
    THEN q
    ELSE LET col == mx.columns[c]
         IN  build_queue_loop_any_name(mx,
                 IF col.primary THEN CPQ_push(q, col) ELSE q, c + 1)

RECURSIVE build_queue_loop(_, _, _)
build_queue_loop(mx, q, c) ==
    IF c >= Len0(mx.columns)
    THEN q
    ELSE LET col == mx.columns[c]
         IN  build_queue_loop(mx,
                 IF col.name.tag = "Other" /\ col.primary THEN CPQ_push(q, col) ELSE q,
                 c + 1)

build_queue(mx) == build_queue_loop(mx, CPQ_new, 0)

(***************************************************************************)
(* The queue through cover and uncover.  cover removes the column from the *)
(* queue and, at each cell it unlinks, gives the owner of the cell the     *)
(* priority of its new size; uncover gives each owner the priority of its  *)
(* restored size and pushes the column again when it is primary.  `m` is   *)
(* the matrix as it is before the call.                                    *)
(***************************************************************************)
RECURSIVE queue_cells(_, _, _, _, _)
queue_cells(q, m, v, k, delta) ==
    IF k > Len(v)
    THEN q
    ELSE LET h  == m.cells[v[k]].header
             m1 == [m EXCEPT !.headers[h].size = @ + delta]
         IN  queue_cells(CPQ_change_priority(q, m1.headers[h]), m1, v, k + 1, delta)

cover_queue(q, m, key) ==
    LET header_cell_index == m.headers[key].cell
        v == rows_cells(m, iterate_cells(m, header_cell_index, "down", FALSE), 1, "right")
    IN  queue_cells(CPQ_remove(q, m.headers[key]), m, v, 1, 0 - 1)

uncover_queue(q, m, key) ==
    LET header_cell_index == m.headers[key].cell
        v  == rows_cells(m, iterate_cells(m, header_cell_index, "up", FALSE), 1, "left")
        q1 == queue_cells(q, m, v, 1, 1)
    IN  IF m.headers[key].primary THEN CPQ_push(q1, m.headers[key]) ELSE q1

(***************************************************************************)
(* solver.rs: cover_row, uncover_row, add_to_sol, create_sol.              *)
(***************************************************************************)
RECURSIVE cover_all(_, _, _)
cover_all(m, js, k) ==
    IF k > Len(js) THEN m ELSE cover_all(cover(m, js[k]), js, k + 1)

RECURSIVE uncover_all(_, _, _)
uncover_all(m, js, k) ==
    IF k > Len(js) THEN m ELSE uncover_all(uncover(m, js[k]), js, k + 1)

headers_of(m, cs) == [k \in 1..Len(cs) |-> m.cells[cs[k]].header]

\* the columns cover_row covers, in the order of the calls
cover_row_columns(m, row) == headers_of(m, iterate_cells(m, row, "right", FALSE))

cover_row(m, row) == cover_all(m, cover_row_columns(m, row), 1)

\* uncover_row walking the row as cover_row does
uncover_row_columns_rightwards(m, row) ==
    headers_of(m, iterate_cells(m, row, "right", FALSE))

\* the columns uncover_row uncovers, in the order of the calls
uncover_row_columns(m, row) == headers_of(m, iterate_cells(m, row, "left", FALSE))

uncover_row(m, row) == uncover_all(m, uncover_row_columns(m, row), 1)

\* solver.rs add_to_sol: the debug assertion, c != next_row for c the header
\* cell of the column that owns next_row
add_to_sol_assertion(m, next_row) == m.headers[m.cells[next_row].header].cell # next_row

\* add_to_sol recording the row one depth too deep
add_to_sol_shifted(dict, k, next_row) ==
    [x \in DOMAIN dict \cup {k + 1} |-> IF x = k + 1 THEN next_row ELSE dict[x]]

add_to_sol(dict, k, next_row) ==
    [x \in DOMAIN dict \cup {k} |-> IF x = k THEN next_row ELSE dict[x]]

RECURSIVE names_of(_, _, _)
names_of(m, cs, k) ==
    IF k > Len(cs)
    THEN <<>>
    ELSE LET nm == m.headers[m.cells[cs[k]].header].name
         IN  (IF nm.tag = "Other" THEN <<nm.name>> ELSE <<>>) \o names_of(m, cs, k + 1)

\* create_sol reading the entry at depth k too, which a deeper branch may have left
create_sol_stale(m, k, dict) ==
    LET keys == {key \in DOMAIN dict : key <= k /\ m.cells[dict[key]].row # Header}
        rowsel == {m.cells[dict[key]].row : key \in keys}
    IN  [r \in rowsel |->
           LET key == CHOOSE kk \in keys : m.cells[dict[kk]].row = r
           IN  names_of(m, iterate_cells(m, dict[key], "right", TRUE), 1)]

create_sol(m, k, dict) ==
    LET keys == {key \in DOMAIN dict : key < k /\ m.cells[dict[key]].row # Header}
        rowsel == {m.cells[dict[key]].row : key \in keys}
    IN  [r \in rowsel |->
           LET key == CHOOSE kk \in keys : m.cells[dict[kk]].row = r
           IN  names_of(m, iterate_cells(m, dict[key], "right", TRUE), 1)]

(***************************************************************************)
(* solver.rs: RecursiveAlgorithmXSolver, built with choose_min = true.     *)
(* The solver's state is s: the matrix, the depth-to-row map, the flags    *)
(* stop and solution_found, the callback (the set of the calls, numbered   *)
(* from 1, at which it returns true), and the solutions the callback was   *)
(* handed, one for each call, in order.  Its create_sol has the            *)
(* text of the iterative solver's.  search is the recursion; rec_rows is   *)
(* its loop `for row in rows`.                                             *)
(***************************************************************************)
RecNew(m, callback) ==
    [matrix |-> m, callback |-> callback, stop |-> FALSE, solution_found |-> FALSE,
     sol_dict |-> Empty0, solutions |-> <<>>, panic |-> FALSE]

RECURSIVE search(_, _)
RECURSIVE rec_rows(_, _, _, _)
RECURSIVE rec_rows_no_stop(_, _, _, _)

\* the loop over the rows that does not look at `stop`
rec_rows_no_stop(s, rows, i, k) ==
    IF i > Len(rows)
    THEN s
    ELSE LET s1 == [s EXCEPT !.sol_dict = add_to_sol(@, k, rows[i]),
                             !.matrix = cover_row(@, rows[i])]
             s2 == search(s1, k + 1)
         IN  rec_rows_no_stop([s2 EXCEPT !.matrix = uncover_row(@, rows[i])],
                              rows, i + 1, k)

rec_rows(s, rows, i, k) ==
    IF i > Len(rows)
    THEN s
    ELSE LET s1 == [s EXCEPT !.sol_dict = add_to_sol(@, k, rows[i]),
                             !.matrix = cover_row(@, rows[i])]
             s2 == search(s1, k + 1)
         IN  IF s2.stop
             THEN s2
             ELSE rec_rows([s2 EXCEPT !.matrix = uncover_row(@, rows[i])], rows, i + 1, k)

\* search trying the rows of the chosen column from the bottom up
search_upwards(s, k) ==
    LET m == s.matrix
        header_cell == m.cells[m.headers[m.header_key].cell]
    IN  IF header_cell.right = header_cell.index
        THEN [s EXCEPT !.solution_found = TRUE,
                       !.solutions = Append(@, create_sol(m, k, s.sol_dict)),
                       !.stop = IF Len(s.solutions) + 1 \in s.callback
                                THEN TRUE ELSE @]
        ELSE LET start_col == min_column(m)
             IN  IF ~start_col.some
                 THEN [s EXCEPT !.panic = TRUE, !.stop = TRUE]
                 ELSE LET col_cell == m.headers[start_col.v].cell
                          col == m.headers[start_col.v].index
                          m1 == cover(m, col)
                          rows == iterate_cells(m1, col_cell, "up", FALSE)
                          s2 == rec_rows([s EXCEPT !.matrix = m1], rows, 1, k)
                      IN  IF s2.stop
                          THEN s2
                          ELSE [s2 EXCEPT !.matrix = uncover(@, col)]

search(s, k) ==
    LET m == s.matrix
        header_cell == m.cells[m.headers[m.header_key].cell]
    IN  IF header_cell.right = header_cell.index
        THEN [s EXCEPT !.solution_found = TRUE,
                       !.solutions = Append(@, create_sol(m, k, s.sol_dict)),
                       !.stop = IF Len(s.solutions) + 1 \in s.callback
                                THEN TRUE ELSE @]
        ELSE LET start_col == min_column(m)
             IN  IF ~start_col.some
                 THEN [s EXCEPT !.panic = TRUE, !.stop = TRUE]
                 ELSE LET col_cell == m.headers[start_col.v].cell
                          col == m.headers[start_col.v].index
                          m1 == cover(m, col)
                          rows == iterate_cells(m1, col_cell, "down", FALSE)
                          s2 == rec_rows([s EXCEPT !.matrix = m1], rows, 1, k)
                      IN  IF s2.stop
                          THEN s2
                          ELSE [s2 EXCEPT !.matrix = uncover(@, col)]

\* the callback that answers `stop` at every call
callback_of(stop) == IF stop THEN Nat ELSE {}

RecSolve(m, callback) == search(RecNew(m, callback), 0)

(***************************************************************************)
(* solver.rs: IterativeAlgorithmXSolver::solve.  One pass of the loop      *)
(* `while let Some(elem) = stack.last()`, on the solver's state s; num is  *)
(* the number random_column draws (unused when choose_min).  A stack frame *)
(* is Root or Iteration {k, current_row, start_row}.                       *)
(***************************************************************************)
Root == [root |-> TRUE, k |-> 0, current_row |-> 0, start_row |-> 0]

Iteration(k, current_row, start_row) ==
    [root |-> FALSE, k |-> k, current_row |-> current_row, start_row |-> start_row]

Pop(st) == SubSeq(st, 1, Len(st) - 1)

\* the descent that does not look at the size of the chosen column
solve_descend_no_prune(s, k, num) ==
    LET m == s.matrix
        start_col == IF s.choose_min THEN min_column(m) ELSE random_column(m, num)
    IN  IF ~start_col.some
        THEN [s EXCEPT !.phase = "panicked"]
        ELSE LET col_cell == m.headers[start_col.v].cell
                 col == m.headers[start_col.v].index
                 m1 == cover(m, col)
                 next_row == m1.cells[col_cell].down
             IN  [s EXCEPT !.stack = Append(@, Iteration(k + 1, next_row, col_cell)),
                           !.advance = FALSE,
                           !.sol_dict = add_to_sol(@, k, next_row),
                           !.matrix = cover_row(m1, next_row)]

\* the descent that leaves `advance` as it is on a column of size 0
solve_descend_silent_prune(s, k, num) ==
    LET m == s.matrix
        start_col == IF s.choose_min THEN min_column(m) ELSE random_column(m, num)
    IN  IF ~start_col.some
        THEN [s EXCEPT !.phase = "panicked"]
        ELSE IF m.headers[start_col.v].size = 0
             THEN s
             ELSE LET col_cell == m.headers[start_col.v].cell
                      col == m.headers[start_col.v].index
                      m1 == cover(m, col)
                      next_row == m1.cells[col_cell].down
                  IN  [s EXCEPT !.stack = Append(@, Iteration(k + 1, next_row, col_cell)),
                                !.advance = FALSE,
                                !.sol_dict = add_to_sol(@, k, next_row),
                                !.matrix = cover_row(m1, next_row)]

\* the descent that pushes its frame with the depth of the frame below
solve_descend_same_depth(s, k, num) ==
    LET m == s.matrix
        start_col == IF s.choose_min THEN min_column(m) ELSE random_column(m, num)
    IN  IF ~start_col.some
        THEN [s EXCEPT !.phase = "panicked"]
        ELSE IF m.headers[start_col.v].size = 0
             THEN [s EXCEPT !.advance = TRUE]
             ELSE LET col_cell == m.headers[start_col.v].cell
                      col == m.headers[start_col.v].index
                      m1 == cover(m, col)
                      next_row == m1.cells[col_cell].down
                  IN  [s EXCEPT !.stack = Append(@, Iteration(k, next_row, col_cell)),
                                !.advance = FALSE,
                                !.sol_dict = add_to_sol(@, k, next_row),
                                !.matrix = cover_row(m1, next_row)]

solve_descend(s, k, num) ==
    LET m == s.matrix
        start_col == IF s.choose_min THEN min_column(m) ELSE random_column(m, num)
    IN  IF ~start_col.some
        THEN [s EXCEPT !.phase = "panicked"]
        ELSE IF m.headers[start_col.v].size = 0
             THEN [s EXCEPT !.advance = TRUE]
             ELSE LET col_cell == m.headers[start_col.v].cell
                      col == m.headers[start_col.v].index
                      m1 == cover(m, col)
                      next_row == m1.cells[col_cell].down
                  IN  [s EXCEPT !.stack = Append(@, Iteration(k + 1, next_row, col_cell)),
                                !.advance = FALSE,
                                !.sol_dict = add_to_sol(@, k, next_row),
                                !.matrix = cover_row(m1, next_row)]

\* solve_advance that stays on the row it has just undone
solve_advance_same_row(s, elem, k) ==
    LET m1 == uncover_row(s.matrix, elem.current_row)
        next_row == elem.current_row
    IN  IF next_row = elem.start_row
        THEN [s EXCEPT !.stack = Pop(@),
                       !.matrix = uncover(m1, m1.cells[next_row].header),
                       !.advance = TRUE]
        ELSE IF k = 0
             THEN [s EXCEPT !.phase = "panicked"]
             ELSE [s EXCEPT !.stack = Append(Pop(@), Iteration(k, next_row, elem.start_row)),
                            !.sol_dict = add_to_sol(@, k - 1, next_row),
                            !.advance = FALSE,
                            !.matrix = cover_row(m1, next_row)]

\* solve_advance that pops the frame of an exhausted column and leaves the
\* column covered
solve_advance_keep_covered(s, elem, k) ==
    LET m1 == uncover_row(s.matrix, elem.current_row)
        next_row == m1.cells[elem.current_row].down
    IN  IF next_row = elem.start_row
        THEN [s EXCEPT !.stack = Pop(@),
                       !.matrix = m1,
                       !.advance = TRUE]
        ELSE IF k = 0
             THEN [s EXCEPT !.phase = "panicked"]
             ELSE [s EXCEPT !.stack = Append(Pop(@), Iteration(k, next_row, elem.start_row)),
                            !.sol_dict = add_to_sol(@, k - 1, next_row),
                            !.advance = FALSE,
                            !.matrix = cover_row(m1, next_row)]

\* solve_advance that pushes the frame of the next row over the frame it leaves
solve_advance_no_pop(s, elem, k) ==
    LET m1 == uncover_row(s.matrix, elem.current_row)
        next_row == m1.cells[elem.current_row].down
    IN  IF next_row = elem.start_row
        THEN [s EXCEPT !.stack = Pop(@),
                       !.matrix = uncover(m1, m1.cells[next_row].header),
                       !.advance = TRUE]
        ELSE IF k = 0
             THEN [s EXCEPT !.phase = "panicked"]
             ELSE [s EXCEPT !.stack = Append(@, Iteration(k, next_row, elem.start_row)),
                            !.sol_dict = add_to_sol(@, k - 1, next_row),
                            !.advance = FALSE,
                            !.matrix = cover_row(m1, next_row)]

solve_advance(s, elem, k) ==
    LET m1 == uncover_row(s.matrix, elem.current_row)
        next_row == m1.cells[elem.current_row].down
    IN  IF next_row = elem.start_row
        THEN [s EXCEPT !.stack = Pop(@),
                       !.matrix = uncover(m1, m1.cells[next_row].header),
                       !.advance = TRUE]
        ELSE IF k = 0
             THEN [s EXCEPT !.phase = "panicked"]
             ELSE [s EXCEPT !.stack = Append(Pop(@), Iteration(k, next_row, elem.start_row)),
                            !.sol_dict = add_to_sol(@, k - 1, next_row),
                            !.advance = FALSE,
                            !.matrix = cover_row(m1, next_row)]

solve_match(s, elem, k, num) ==
    IF elem.root /\ s.advance
    THEN [s EXCEPT !.stack = Pop(@)]
    ELSE IF ~elem.root /\ s.advance
         THEN solve_advance(s, elem, k)
         ELSE solve_descend(s, k, num)

\* the loop without the return at the first solution
solve_loop_no_return(s, num) ==
    IF Len(s.stack) = 0
    THEN [s EXCEPT !.phase = "done"]
    ELSE LET elem == s.stack[Len(s.stack)]
             k == elem.k
             header_cell == s.matrix.cells[s.matrix.headers[s.matrix.header_key].cell]
         IN  IF header_cell.right = header_cell.index
             THEN LET s1 == [s EXCEPT !.solutions =
                                Append(@, create_sol(s.matrix, k, s.sol_dict))]
                  IN  solve_match([s1 EXCEPT !.advance = TRUE], elem, k, num)
             ELSE solve_match(s, elem, k, num)

solve_loop(s, num) ==
    IF Len(s.stack) = 0
    THEN [s EXCEPT !.phase = "done"]
    ELSE LET elem == s.stack[Len(s.stack)]
             k == elem.k
             header_cell == s.matrix.cells[s.matrix.headers[s.matrix.header_key].cell]
         IN  IF header_cell.right = header_cell.index
             THEN LET s1 == [s EXCEPT !.solutions =
                                Append(@, create_sol(s.matrix, k, s.sol_dict))]
                  IN  IF s.return_first
                      THEN [s1 EXCEPT !.phase = "done"]
                      ELSE solve_match([s1 EXCEPT !.advance = TRUE], elem, k, num)
             ELSE solve_match(s, elem, k, num)

(***************************************************************************)
(* Matrices handed to the solver: a schema of 1..MaxCols columns, the i-th *)
(* named i and primary or secondary, and up to SolveRows rows, each a      *)
(* nonempty set of declared columns given by ascending ids, put through    *)
(* end_columns, add_sorted_row_index and build.                            *)
(***************************************************************************)
SeqsUpTo(S, n) == UNION {[1..k -> S] : k \in 0..n}

Ascending(q) == \A i \in 1..(Len(q) - 1) : q[i] < q[i + 1]

Distinct(q) == \A i, j \in 1..Len(q) : i # j => q[i] # q[j]

Schemas ==
    {sp \in SeqsUpTo([name : 1..MaxCols, primary : BOOLEAN], MaxCols) :
        Len(sp) >= 1 /\ \A i \in 1..Len(sp) : sp[i].name = i}

RowsOver(n) == {q \in SeqsUpTo(1..n, n) : Len(q) >= 1 /\ Ascending(q)}

RECURSIVE add_rows(_, _, _)
add_rows(mx, rws, i) ==
    IF i > Len(rws) THEN mx ELSE add_rows(add_sorted_row_index(mx, rws[i]).mx, rws, i + 1)

BuildFrom(specs, rws) == build(add_rows(end_columns(specs).mx, rws, 1))

Items(q) == {q[j] : j \in 1..Len(q)}

RECURSIVE AscendingSeq(_)
AscendingSeq(S) ==
    IF S = {}
    THEN <<>>
    ELSE LET lo == CHOOSE x \in S : \A y \in S : x <= y
         IN  <<lo>> \o AscendingSeq(S \ {lo})

NoCall == [op |-> "none", input |-> <<>>, pre |-> NoMatrix]

(***************************************************************************)
(* solver.rs: the calls of cover and uncover one pass of the loop of       *)
(* solve() makes, in the order it makes them.  A call is the pair of the   *)
(* operation and the column.                                               *)
(***************************************************************************)
Call(op, js) == [k \in 1..Len(js) |-> [op |-> op, col |-> js[k]]]

descend_calls(s, num) ==
    LET m == s.matrix
        start_col == IF s.choose_min THEN min_column(m) ELSE random_column(m, num)
    IN  IF ~start_col.some \/ m.headers[start_col.v].size = 0
        THEN <<>>
        ELSE LET col_cell == m.headers[start_col.v].cell
                 col == m.headers[start_col.v].index
                 m1 == cover(m, col)
                 next_row == m1.cells[col_cell].down
             IN  Call("cover", <<col>>) \o Call("cover", cover_row_columns(m1, next_row))

advance_calls(s, elem, k) ==
    LET m1 == uncover_row(s.matrix, elem.current_row)
        next_row == m1.cells[elem.current_row].down
    IN  Call("uncover", uncover_row_columns(s.matrix, elem.current_row))
          \o (IF next_row = elem.start_row
              THEN Call("uncover", <<m1.cells[next_row].header>>)
              ELSE IF k = 0
                   THEN <<>>
                   ELSE Call("cover", cover_row_columns(m1, next_row)))

solve_calls(s, num) ==
    IF Len(s.stack) = 0
    THEN <<>>
    ELSE LET elem == s.stack[Len(s.stack)]
             header_cell == s.matrix.cells[s.matrix.headers[s.matrix.header_key].cell]
             found == header_cell.right = header_cell.index
         IN  IF found /\ s.return_first
             THEN <<>>
             ELSE IF elem.root /\ (s.advance \/ found)
                  THEN <<>>
                  ELSE IF ~elem.root /\ (s.advance \/ found)
                       THEN advance_calls(s, elem, elem.k)
                       ELSE descend_calls(s, num)

\* the columns covered and not yet uncovered after the calls, innermost last
RECURSIVE ApplyCalls(_, _, _)
ApplyCalls(cov, calls, i) ==
    IF i > Len(calls)
    THEN cov
    ELSE IF calls[i].op = "cover"
         THEN ApplyCalls(Append(cov, calls[i].col), calls, i + 1)
         ELSE ApplyCalls(IF cov # <<>> THEN SubSeq(cov, 1, Len(cov) - 1) ELSE cov,
                         calls, i + 1)

SolverState ==
    [phase |-> phase, matrix |-> matrix, choose_min |-> choose_min,
     return_first |-> return_first, stack |-> stack, advance |-> advance,
     sol_dict |-> sol_dict, solutions |-> solutions]

NewSolve(m, cm, rf) ==
    [phase |-> "solving", matrix |-> m, choose_min |-> cm, return_first |-> rf,
     stack |-> <<Root>>, advance |-> FALSE, sol_dict |-> Empty0, solutions |-> <<>>]

SetSolver(s) ==
    /\ phase' = s.phase
    /\ matrix' = s.matrix
    /\ choose_min' = s.choose_min
    /\ return_first' = s.return_first
    /\ stack' = s.stack
    /\ advance' = s.advance
    /\ sol_dict' = s.sol_dict
    /\ solutions' = s.solutions

InitSolve ==
    \E specs \in Schemas :
      \E rws \in SeqsUpTo(RowsOver(Len(specs)), SolveRows) :
          /\ columns = specs
          /\ added = [i \in 1..Len(rws) |-> Items(rws[i])]
          /\ proto = NoMatrix
          /\ last = NoCall
          /\ it_last = 0
          /\ it_out = <<>>
          /\ covered = <<>>
          /\ snaps = <<>>
          /\ columns_queue = CPQ_new
          /\ phase = "solving"
          /\ matrix = BuildFrom(specs, rws)
          /\ choose_min \in BOOLEAN
          /\ return_first \in BOOLEAN
          /\ stack = <<Root>>
          /\ advance = FALSE
          /\ sol_dict = Empty0
          /\ solutions = <<>>
          /\ steps = 0

RingEmpty(m) ==
    m.cells[m.headers[m.header_key].cell].right = m.headers[m.header_key].cell

RandRange == IF choose_min THEN {0} ELSE 0..(matrix.columns - 1)

(***************************************************************************)
(* A search node is a frame with one current row; the rows of the frames   *)
(* on the stack are pairwise different, so with R rows there are at most   *)
(* R^d nodes of depth d and the depth is at most R.  Every node is on top  *)
(* of the stack for at most two passes of the loop (one that descends,     *)
(* prunes or emits from it, one that advances it), Root likewise, and one  *)
(* last pass finds the stack empty.                                        *)
(***************************************************************************)
RECURSIVE Power(_, _)
Power(b, e) == IF e = 0 THEN 1 ELSE b * Power(b, e - 1)

RECURSIVE NodesBound(_, _)
NodesBound(R, d) == IF d = 0 THEN 0 ELSE Power(R, d) + NodesBound(R, d - 1)

StepBound == 2 * NodesBound(Len(added), Len(added)) + 3

LoopPass ==
    /\ steps <= StepBound
    /\ steps' = steps + 1
    /\ \E num \in RandRange :
          /\ SetSolver(solve_loop(SolverState, num))
          /\ covered' = ApplyCalls(covered, solve_calls(SolverState, num), 1)
    /\ UNCHANGED <<builderVars, iterVars, snaps, columns_queue>>

\* the stack is empty: solve() returns
SolveReturn ==
    /\ phase = "solving"
    /\ stack = <<>>
    /\ LoopPass

\* the primary ring is empty and return_first: push the solution and return
SolveEmitFirst ==
    /\ phase = "solving"
    /\ stack # <<>>
    /\ RingEmpty(matrix) /\ return_first
    /\ LoopPass

\* Root on top with advance (set before, or by a solution just pushed): pop it
SolveRootPop ==
    /\ phase = "solving"
    /\ stack # <<>>
    /\ stack[Len(stack)].root
    /\ ~(RingEmpty(matrix) /\ return_first)
    /\ (advance \/ RingEmpty(matrix))
    /\ LoopPass

\* Iteration on top with advance: uncover the row, move down or pop
SolveAdvance ==
    /\ phase = "solving"
    /\ stack # <<>>
    /\ ~stack[Len(stack)].root
    /\ ~(RingEmpty(matrix) /\ return_first)
    /\ (advance \/ RingEmpty(matrix))
    /\ LoopPass

\* no advance: choose a column, prune or cover it and push a frame
SolveDescend ==
    /\ phase = "solving"
    /\ stack # <<>>
    /\ ~RingEmpty(matrix)
    /\ ~advance
    /\ LoopPass

NextSolve ==
    \/ SolveReturn
    \/ SolveEmitFirst
    \/ SolveRootPop
    \/ SolveAdvance
    \/ SolveDescend

Spec == InitSolve /\ [][NextSolve]_vars

(***************************************************************************)
(* Cover and uncover called directly on a built matrix, nested: any column *)
(* not covered at present may be covered, the column covered last may be   *)
(* uncovered.                                                              *)
(***************************************************************************)
InitCover ==
    \E specs \in Schemas :
      \E rws \in SeqsUpTo(RowsOver(Len(specs)), SolveRows) :
          /\ columns = specs
          /\ added = [i \in 1..Len(rws) |-> Items(rws[i])]
          /\ proto = NoMatrix
          /\ last = NoCall
          /\ it_last = 0
          /\ it_out = <<>>
          /\ covered = <<>>
          /\ snaps = <<>>
          /\ columns_queue = build_queue(add_rows(end_columns(specs).mx, rws, 1))
          /\ phase = "built"
          /\ matrix = BuildFrom(specs, rws)
          /\ choose_min = TRUE
          /\ return_first = FALSE
          /\ stack = <<>>
          /\ advance = FALSE
          /\ sol_dict = Empty0
          /\ solutions = <<>>
          /\ steps = 0

Cover(c) ==
    /\ phase = "built"
    /\ c \notin Items(covered)
    /\ matrix' = cover(matrix, c)
    /\ covered' = Append(covered, c)
    /\ snaps' = Append(snaps, matrix)
    /\ columns_queue' = cover_queue(columns_queue, matrix, c)
    /\ last' = [op |-> "cover", input |-> <<c>>, pre |-> matrix]
    /\ UNCHANGED <<phase, columns, proto, added, iterVars, solverVars>>

Uncover ==
    /\ phase = "built"
    /\ covered # <<>>
    /\ matrix' = uncover(matrix, covered[Len(covered)])
    /\ covered' = Pop(covered)
    /\ snaps' = Pop(snaps)
    /\ columns_queue' = uncover_queue(columns_queue, matrix, covered[Len(covered)])
    /\ last' = [op |-> "uncover", input |-> <<covered[Len(covered)]>>,
                pre |-> snaps[Len(snaps)]]
    /\ UNCHANGED <<phase, columns, proto, added, iterVars, solverVars>>

NextCover ==
    \/ \E c \in 1..Len(columns) : Cover(c)
    \/ Uncover

SpecCover == InitCover /\ [][NextCover]_vars

(***************************************************************************)
(* The builder driven call by call: add_column up to MaxCols times,        *)
(* end_columns, then rows by id or by value through the four entry points, *)
(* build, and iter_rows read to its end.  A row is a sequence of distinct  *)
(* ids from 0 to one past the declared columns, or of distinct values from *)
(* the names and one value no column carries.  `added` keeps the set of    *)
(* item names of every accepted row (0 for the first column), `last` the   *)
(* call made last and the matrix under construction before it.             *)
(***************************************************************************)
InitBuild ==
    /\ columns = <<>>
    /\ added = <<>>
    /\ proto = NoMatrix
    /\ last = NoCall
    /\ it_last = 0
    /\ it_out = <<>>
    /\ covered = <<>>
    /\ snaps = <<>>
    /\ columns_queue = CPQ_new
    /\ phase = "columns"
    /\ matrix = NoBuilt
    /\ choose_min = TRUE
    /\ return_first = FALSE
    /\ stack = <<>>
    /\ advance = FALSE
    /\ sol_dict = Empty0
    /\ solutions = <<>>
    /\ steps = 0

AddColumn(name, primary) ==
    /\ phase = "columns"
    /\ Len(columns) < MaxCols
    /\ columns' = Append(columns, [name |-> name, primary |-> primary])
    /\ UNCHANGED <<phase, proto, matrix, added, last, iterVars, solverVars, coverVars>>

EndColumns ==
    /\ phase = "columns"
    /\ LET r == end_columns(columns)
       IN  /\ phase' = IF r.ok THEN "rows" ELSE "panicked"
           /\ proto' = r.mx
    /\ last' = [op |-> "end_columns", input |-> <<>>, pre |-> proto]
    /\ UNCHANGED <<columns, matrix, added, iterVars, solverVars, coverVars>>

FromIterable ==
    /\ phase = "columns"
    /\ columns = <<>>
    /\ \E specs \in SeqsUpTo([name : Names, primary : BOOLEAN], MaxCols) :
          LET r == from_iterable(specs)
          IN  /\ columns' = specs
              /\ phase' = IF r.ok THEN "rows" ELSE "panicked"
              /\ proto' = r.mx
    /\ last' = [op |-> "from_iterable", input |-> <<>>, pre |-> proto]
    /\ UNCHANGED <<matrix, added, iterVars, solverVars, coverVars>>

IdRows == {q \in SeqsUpTo(0..(Len(columns) + 1), MaxRowLen) : Distinct(q)}

ValueRows == {q \in SeqsUpTo(1..(MaxName + 1), MaxRowLen) : Distinct(q)}

NamesOfIds(row) ==
    {IF row[j] \in 1..Len(columns) THEN columns[row[j]].name ELSE 0 : j \in 1..Len(row)}

RowCall(op, row, r, names) ==
    /\ phase = "rows"
    /\ proto.row_count < MaxRows
    /\ last' = [op |-> op, input |-> row, pre |-> proto]
    /\ proto' = r.mx
    /\ phase' = IF r.ok THEN "rows" ELSE "panicked"
    /\ added' = IF r.ok THEN Append(added, names) ELSE added
    /\ UNCHANGED <<columns, matrix, iterVars, solverVars, coverVars>>

AddRowIndex ==
    \E row \in IdRows :
        RowCall("add_row_index", row, add_row_index(proto, row), NamesOfIds(row))

AddSortedRowIndex ==
    \E row \in IdRows :
        RowCall("add_sorted_row_index", row, add_sorted_row_index(proto, row),
                NamesOfIds(row))

AddRow ==
    \E row \in ValueRows : RowCall("add_row", row, add_row(proto, row), Items(row))

AddSortedRow ==
    \E row \in ValueRows :
        RowCall("add_sorted_row", row, add_sorted_row(proto, row), Items(row))

Build ==
    /\ phase = "rows"
    /\ phase' = "built"
    /\ matrix' = build(proto)
    /\ columns_queue' = build_queue(proto)
    /\ last' = [op |-> "build", input |-> <<>>, pre |-> proto]
    /\ UNCHANGED <<columns, proto, added, iterVars, solverVars, covered, snaps>>

IterRowsNext ==
    /\ phase = "built"
    /\ Len(it_out) <= Len(added)
    /\ LET r == RowIterator_next(matrix, it_last)
       IN  /\ phase' = IF r.panic THEN "panicked" ELSE "built"
           /\ it_last' = r.last
           /\ it_out' = IF r.panic THEN it_out ELSE Append(it_out, r.item)
    /\ last' = [op |-> "next", input |-> <<>>, pre |-> proto]
    /\ UNCHANGED <<columns, proto, matrix, added, solverVars, coverVars>>

NextBuild ==
    \/ \E name \in Names, primary \in BOOLEAN : AddColumn(name, primary)
    \/ EndColumns
    \/ FromIterable
    \/ AddRowIndex
    \/ AddSortedRowIndex
    \/ AddRow
    \/ AddSortedRow
    \/ Build
    \/ IterRowsNext

SpecBuild == InitBuild /\ [][NextBuild]_vars

(***************************************************************************)
(* The exact covers of the input, from the definition: sets of row numbers *)
(* in which every primary column occurs in exactly one row and every       *)
(* secondary column in at most one.  `columns` and `added` are the schema  *)
(* and the rows the matrix was built from.                                 *)
(***************************************************************************)
RowItems(r) == added[r]

Occurrences(S, c) == Cardinality({r \in S : c \in RowItems(r)})

ExactCover(S) ==
    \A c \in 1..Len(columns) :
        IF columns[c].primary THEN Occurrences(S, c) = 1 ELSE Occurrences(S, c) <= 1

ExactCovers == {S \in SUBSET (1..Len(added)) : ExactCover(S)}

Selected(sol) == DOMAIN sol

RECURSIVE RunSolve(_)
RunSolve(s) == IF s.phase # "solving" THEN s ELSE RunSolve(solve_loop(s, 0))

(***************************************************************************)
(* C1  Soundness: every solution solve() has pushed selects a set of rows  *)
(* in which every primary column occurs exactly once and every secondary   *)
(* column at most once (any flags).                                        *)
(***************************************************************************)
C1_Soundness ==
    \A i \in 1..Len(solutions) : ExactCover(Selected(solutions[i]))

\* a finished enumeration with the random chooser, two solutions, one of them of
\* two rows, a secondary column in a selected row
C1_Witness ==
    /\ phase = "done"
    /\ ~choose_min
    /\ Len(solutions) >= 2
    /\ \E i \in 1..Len(solutions) :
         /\ Cardinality(Selected(solutions[i])) = 2
         /\ \E r \in Selected(solutions[i]) :
              \E c \in RowItems(r) : ~columns[c].primary

(***************************************************************************)
(* C2  Completeness, as claimed: when solve() has returned with            *)
(* return_first = false and choose_min = true, every exact cover of the    *)
(* input is among the solutions, covers containing rows made only of       *)
(* secondary columns included.                                             *)
(***************************************************************************)
C2_Completeness ==
    (phase = "done" /\ ~return_first /\ choose_min) =>
        \A S \in ExactCovers :
            \E i \in 1..Len(solutions) : Selected(solutions[i]) = S

(***************************************************************************)
(* C3  No duplicates, as claimed: when solve() has returned with           *)
(* return_first = false no two solutions select the same rows, and every   *)
(* exact cover is emitted exactly once.                                    *)
(***************************************************************************)
C3_ExactlyOnce ==
    (phase = "done" /\ ~return_first) =>
        /\ \A i, j \in 1..Len(solutions) :
               i # j => Selected(solutions[i]) # Selected(solutions[j])
        /\ \A S \in ExactCovers :
               Cardinality({i \in 1..Len(solutions) : Selected(solutions[i]) = S}) = 1

(***************************************************************************)
(* C4  With return_first = true (choose_min = true) solve() returns one    *)
(* solution when the input has an exact cover and none otherwise, and the  *)
(* solution is the first one solve() returns with return_first = false on  *)
(* a matrix built from the same schema and rows.                           *)
(***************************************************************************)
C4_ReturnFirst ==
    (phase = "done" /\ return_first /\ choose_min) =>
        LET rws  == [i \in 1..Len(added) |-> AscendingSeq(added[i])]
            full == RunSolve(NewSolve(BuildFrom(columns, rws), TRUE, FALSE)).solutions
        IN  IF ExactCovers # {}
            THEN Len(solutions) = 1 /\ Len(full) >= 1 /\ solutions[1] = full[1]
            ELSE solutions = <<>>

\* returned early: one solution out of at least two exact covers, frames left on
\* the stack
C4_Witness ==
    /\ phase = "done"
    /\ return_first
    /\ choose_min
    /\ Len(solutions) = 1
    /\ Cardinality(ExactCovers) >= 2
    /\ Len(stack) >= 2

(***************************************************************************)
(* C5  Termination: with choose_min = true and either value of             *)
(* return_first, solve() returns: its loop makes at most StepBound passes, *)
(* no pass panics, and as long as it has not returned a pass is possible.  *)
(***************************************************************************)
C5_Terminates ==
    choose_min =>
        /\ steps <= StepBound
        /\ phase \in {"solving", "done"}
        /\ phase = "solving" =>
              \/ stack = <<>>
              \/ RingEmpty(matrix) /\ return_first
              \/ advance \/ RingEmpty(matrix)
              \/ ~RingEmpty(matrix) /\ ~advance

\* a full enumeration that descended two frames, went back and returned
C5_Witness ==
    /\ phase = "done"
    /\ choose_min
    /\ ~return_first
    /\ stack = <<>>
    /\ 1 \in DOMAIN sol_dict
    /\ Len(solutions) >= 1
    /\ steps >= 8

(***************************************************************************)
(* C6  Cover and uncover are inverses under nesting: every uncover of the  *)
(* column covered last leaves every link of every cell and every size as   *)
(* they were before that column was covered, whatever was covered before   *)
(* it and covered and uncovered in between.                                *)
(***************************************************************************)
C6_CoverUncoverInverse ==
    last.op = "uncover" => matrix = last.pre

\* a secondary column with cells in rows of other columns, covered under another
\* cover and uncovered again
C6_Witness ==
    /\ last.op = "uncover"
    /\ covered # <<>>
    /\ ~columns[last.input[1]].primary
    /\ cover(matrix, last.input[1]).headers # matrix.headers
    /\ matrix # BuildFrom(columns, [i \in 1..Len(added) |-> AscendingSeq(added[i])])

(***************************************************************************)
(* C7  Round trip: iter_rows on the built matrix yields, call after call,  *)
(* the set of item names of the first row added, of the second, and so on  *)
(* for as many rows as the builder accepted, then None; it does not panic, *)
(* and the matrix counts as many rows as were added.                       *)
(***************************************************************************)
C7_RoundTrip ==
    last.op \in {"build", "next"} =>
        /\ phase # "panicked"
        /\ matrix.rows = Len(added)
        /\ \A i \in 1..Len(it_out) :
              it_out[i] = IF i <= Len(added) THEN Some(added[i]) ELSE None

(***************************************************************************)
(* C8  A row given by ids through add_row_index or add_sorted_row_index    *)
(* with an id outside 1..n, n the number of declared columns, id 0         *)
(* included, makes construction fail.                                      *)
(***************************************************************************)
C8_InvalidIdFails ==
    (/\ last.op \in {"add_row_index", "add_sorted_row_index"}
     /\ \E j \in 1..Len(last.input) : last.input[j] \notin 1..Len(columns))
        => phase = "panicked"

(***************************************************************************)
(* C9  With distinct column names, declared in any order, add_row of a     *)
(* nonempty set of declared values given in any order succeeds and leaves  *)
(* the cells and links that add_sorted_row_index leaves when called with   *)
(* the ascending ids of the columns that carry those values.               *)
(***************************************************************************)
C9_AddRowAsSortedIds ==
    (/\ last.op = "add_row"
     /\ last.input # <<>>
     /\ \A i, j \in 1..Len(columns) : i # j => columns[i].name # columns[j].name
     /\ \A j \in 1..Len(last.input) :
           \E i \in 1..Len(columns) : columns[i].name = last.input[j])
        => LET ids == {i \in 1..Len(columns) : columns[i].name \in Items(last.input)}
           IN  /\ phase = "rows"
               /\ proto = add_sorted_row_index(last.pre, AscendingSeq(ids)).mx

(***************************************************************************)
(* C10  A row given by values through add_row or add_sorted_row with a     *)
(* value that no declared column carries makes construction fail, and the  *)
(* matrix under construction holds no cell of that row.                    *)
(***************************************************************************)
C10_UnknownValueFails ==
    (/\ last.op \in {"add_row", "add_sorted_row"}
     /\ \E j \in 1..Len(last.input) :
           \A i \in 1..Len(columns) : columns[i].name # last.input[j])
        => /\ phase = "panicked"
           /\ proto = last.pre

\* a row whose first value has a column and whose second has none, after a row
\* was accepted
C10_Witness ==
    /\ last.op = "add_sorted_row"
    /\ phase = "panicked"
    /\ Len(added) >= 1
    /\ Len(last.input) = 2
    /\ \E i \in 1..Len(columns) : columns[i].name = last.input[1]
    /\ \A i \in 1..Len(columns) : columns[i].name # last.input[2]

(***************************************************************************)
(* C11  Ending the column phase with no column, by end_columns or by       *)
(* from_iterable over nothing, fails: the builder never reaches the row    *)
(* phase, no matrix under construction and no built matrix exist.          *)
(***************************************************************************)
C11_EmptyColumnsFail ==
    columns = <<>> =>
        /\ phase \in {"columns", "panicked"}
        /\ proto = NoMatrix
        /\ matrix = NoBuilt
        /\ last.op \in {"end_columns", "from_iterable"} => phase = "panicked"

C11_Witness ==
    /\ columns = <<>>
    /\ last.op \in {"end_columns", "from_iterable"}
    /\ phase = "panicked"

(***************************************************************************)
(* C12  Duplicate column names are no error and the first match wins: when *)
(* some name of the row is carried by several columns and every value of   *)
(* the row is declared, the by-value call succeeds and the cell of every   *)
(* item whose name is carried by several columns is in the lowest-id       *)
(* column of that name, whatever precedes the item in the row.             *)
(***************************************************************************)
C12_FirstMatchWins ==
    LET carriers(v) == {i \in 1..Len(columns) : columns[i].name = v}
        vals == IF last.op = "add_row"
                THEN SortSeq(last.input, LAMBDA a, b : a < b)
                ELSE last.input
        n0 == Len0(last.pre.cells)
    IN  (/\ last.op \in {"add_row", "add_sorted_row"}
         /\ \A j \in 1..Len(vals) : carriers(vals[j]) # {}
         /\ \E j \in 1..Len(vals) : Cardinality(carriers(vals[j])) >= 2)
            => /\ phase = "rows"
               /\ Len0(proto.cells) = n0 + Len(vals)
               /\ \A j \in 1..Len(vals) :
                     Cardinality(carriers(vals[j])) >= 2 =>
                        \A i \in carriers(vals[j]) :
                           proto.cells[n0 + j - 1].column <= i

(***************************************************************************)
(* C13  Solution content: whenever a pass of the loop pushes a solution,   *)
(* the keys of its map are exactly the row numbers of the rows selected by *)
(* the frames on the stack at that pass, whatever deeper entries the       *)
(* depth-to-row map still holds, and the list of a row holds every item    *)
(* name of that row once and no other name.                                *)
(***************************************************************************)
C13_SolutionContent ==
    [][Len(solutions') > Len(solutions) =>
         LET sol == solutions'[Len(solutions')]
             selected == {matrix.cells[stack[i].current_row].row : i \in 2..Len(stack)}
         IN  /\ Len(solutions') = Len(solutions) + 1
             /\ DOMAIN sol = selected
             /\ \A r \in DOMAIN sol :
                   /\ r \in 1..Len(added)
                   /\ Items(sol[r]) = added[r]
                   /\ Len(sol[r]) = Cardinality(added[r])]_vars

\* a finished run whose last solution has fewer rows than the depth-to-row map has
\* entries, one of its rows having two items
C13_Witness ==
    /\ phase = "done"
    /\ Len(solutions) >= 2
    /\ LET sol == solutions[Len(solutions)]
       IN  /\ Cardinality(DOMAIN sol) >= 1
           /\ Cardinality(DOMAIN sol) < Cardinality(DOMAIN sol_dict)
           /\ \E r \in DOMAIN sol : Len(sol[r]) = 2

(***************************************************************************)
(* C14  Solution item order: in every returned solution the list of a      *)
(* selected row gives the items of the row in ascending column order,      *)
(* beginning with the lowest-id column of the row, whichever column the    *)
(* row was selected through.                                               *)
(***************************************************************************)
C14_ItemOrder ==
    \A i \in 1..Len(solutions) :
        \A r \in DOMAIN solutions[i] :
            r \in 1..Len(added) => solutions[i][r] = AscendingSeq(added[r])

(***************************************************************************)
(* C15  Boundary: on a matrix built with no rows, solve() returns; it      *)
(* returns no solution when the schema has a primary column, and exactly   *)
(* one solution, with an empty map, when every column is secondary.        *)
(***************************************************************************)
C15_NoRows ==
    (added = <<>> /\ phase # "solving") =>
        /\ phase = "done"
        /\ IF \E c \in 1..Len(columns) : columns[c].primary
           THEN solutions = <<>>
           ELSE Len(solutions) = 1 /\ DOMAIN solutions[1] = {}

(***************************************************************************)
(* C16  Random chooser: with choose_min = false the chooser yields a       *)
(* column at every choice point, for every index it can draw, so solve()   *)
(* does not fail, and a run that enumerates all solutions returns the same *)
(* set of solutions as the run with choose_min = true on the same matrix.  *)
(***************************************************************************)
C16_RandomChooser ==
    ~choose_min =>
        /\ phase # "panicked"
        /\ (phase = "done" /\ ~return_first) =>
              LET rws  == [i \in 1..Len(added) |-> AscendingSeq(added[i])]
                  full == RunSolve(NewSolve(BuildFrom(columns, rws), TRUE, FALSE)).solutions
              IN  {Selected(solutions[i]) : i \in 1..Len(solutions)}
                     = {Selected(full[i]) : i \in 1..Len(full)}

(***************************************************************************)
(* C17  Minimum chooser: whenever the solver is running and the top ring   *)
(* is not empty, min_column yields a primary column linked in the ring, of *)
(* least size among the columns of the ring and, among those of least      *)
(* size, of lowest id.                                                     *)
(***************************************************************************)
C17_MinChooser ==
    (phase = "solving" /\ ~RingEmpty(matrix)) =>
        LET hs == iterate_headers(matrix, matrix.header_key, "right", FALSE)
            ring == {hs[i] : i \in 1..Len(hs)}
            ch == min_column(matrix)
        IN  /\ ch.some
            /\ ch.v \in ring
            /\ ch.v \in 1..Len(columns)
            /\ columns[ch.v].primary
            /\ \A c \in ring :
                  /\ matrix.headers[ch.v].size <= matrix.headers[c].size
                  /\ matrix.headers[ch.v].size = matrix.headers[c].size => ch.v <= c

\* the first descent of the minimum chooser has been made, on a matrix where a column
\* of lower id is larger and a column of higher id is as small as the chosen one
C17_Witness ==
    /\ phase = "solving"
    /\ choose_min
    /\ Len(stack) = 2
    /\ ~advance
    /\ LET m0 == BuildFrom(columns, [i \in 1..Len(added) |-> AscendingSeq(added[i])])
           hs == iterate_headers(m0, m0.header_key, "right", FALSE)
           ch == min_column(m0).v
       IN  /\ stack[2].start_row = m0.headers[ch].cell
           /\ \E i \in 1..Len(hs) :
                 hs[i] < ch /\ m0.headers[hs[i]].size > m0.headers[ch].size
           /\ \E i \in 1..Len(hs) :
                 hs[i] > ch /\ m0.headers[hs[i]].size = m0.headers[ch].size

(***************************************************************************)
(* C18  The two solvers agree: with choose_min = true, the sequence the    *)
(* iterative solver returns equals, in order and content, the sequence of  *)
(* solutions the recursive solver hands to its callback on the same        *)
(* matrix, the callback returning false when return_first = false and true *)
(* when return_first = true; the recursive solver reports a solution       *)
(* found exactly when that sequence is not empty.                          *)
(***************************************************************************)
C18_IterativeEqualsRecursive ==
    (phase = "done" /\ choose_min) =>
        LET rws == [i \in 1..Len(added) |-> AscendingSeq(added[i])]
            rec == RecSolve(BuildFrom(columns, rws), callback_of(return_first))
        IN  /\ ~rec.panic
            /\ rec.solutions = solutions
            /\ rec.solution_found = (solutions # <<>>)

\* a full run with a dead end and two solutions, one of them of two rows whose
\* order of emission depends on the order the rows of a column are tried in
C18_Witness ==
    /\ phase = "done"
    /\ choose_min
    /\ ~return_first
    /\ Len(solutions) = 2
    /\ Len(added) = 3
    /\ Cardinality(DOMAIN solutions[1]) # Cardinality(DOMAIN solutions[2])

(***************************************************************************)
(* C19  Ring invariant: after build and at the top of every pass of the    *)
(* solver's loop, every live cell c (the header cells in the top ring, the *)
(* first column's included, and the data cells linked in the up/down ring  *)
(* of their column) has c.left.right = c, c.right.left = c, c.up.down = c  *)
(* and c.down.up = c.                                                      *)
(***************************************************************************)
LiveCells(m) ==
    LET hs == iterate_headers(m, m.header_key, "right", TRUE)
        col(c) == iterate_cells(m, m.headers[c].cell, "down", FALSE)
    IN  {m.headers[hs[i]].cell : i \in 1..Len(hs)}
           \cup UNION {{col(c)[j] : j \in 1..Len(col(c))} : c \in DOMAIN m.headers}

C19_RingInvariant ==
    \A c \in LiveCells(matrix) :
        /\ matrix.cells[matrix.cells[c].left].right = c
        /\ matrix.cells[matrix.cells[c].right].left = c
        /\ matrix.cells[matrix.cells[c].up].down = c
        /\ matrix.cells[matrix.cells[c].down].up = c

\* a row is selected, a primary column is still in the ring and holds a cell, and
\* some data cell of the matrix is not live
C19_Witness ==
    /\ phase = "solving"
    /\ Len(stack) >= 2
    /\ ~advance
    /\ ~RingEmpty(matrix)
    /\ \E c \in 1..Len(columns) :
          /\ matrix.headers[c].cell \in LiveCells(matrix)
          /\ matrix.headers[c].size >= 1
    /\ \E k \in DOMAIN matrix.cells :
          matrix.cells[k].row # Header /\ k \notin LiveCells(matrix)

(***************************************************************************)
(* C20  Size invariant: after build and after the covers and uncovers of   *)
(* every pass of the solver's loop, the size of every column, primary or   *)
(* secondary, covered or not, is the number of cells met by walking down   *)
(* from the column's header cell until the walk is back at it; no size is  *)
(* below zero.                                                             *)
(***************************************************************************)
C20_SizeInvariant ==
    \A c \in DOMAIN matrix.headers :
        /\ matrix.headers[c].size >= 0
        /\ matrix.headers[c].size =
              Len(iterate_cells(matrix, matrix.headers[c].cell, "down", FALSE))

\* a row is selected, a column in the ring has lost a cell and kept another, and a
\* secondary column has lost a cell
C20_Witness ==
    /\ phase = "solving"
    /\ Len(stack) >= 2
    /\ LET m0 == BuildFrom(columns, [i \in 1..Len(added) |-> AscendingSeq(added[i])])
       IN  /\ \E c \in 1..Len(columns) :
                 /\ columns[c].primary
                 /\ matrix.headers[c].cell \in LiveCells(matrix)
                 /\ matrix.headers[c].size >= 1
                 /\ matrix.headers[c].size < m0.headers[c].size
           /\ \E c \in 1..Len(columns) :
                 /\ ~columns[c].primary
                 /\ matrix.headers[c].size < m0.headers[c].size


(***************************************************************************)
(* C21: after build and after every cover and uncover, a primary column is *)
(* in the priority queue exactly when its header cell is linked into the   *)
(* ring of the first column, and no secondary column is in the queue.      *)
(***************************************************************************)
InTopRing(m, c) ==
    m.headers[c].cell \in Items(iterate_cells(m, m.headers[m.header_key].cell, "right", FALSE))

C22_PeekSmallestLowestId ==
    phase = "built" =>
        LET q == columns_queue
            p == CPQ_peek(q)
        IN  /\ \A c \in DOMAIN q : q[c] = column_priority(matrix.headers[c])
            /\ IF DOMAIN q = {}
               THEN p = None
               ELSE /\ p.some
                    /\ p.v \in DOMAIN q
                    /\ \A d \in DOMAIN q :
                          \/ matrix.headers[p.v].size < matrix.headers[d].size
                          \/ /\ matrix.headers[p.v].size = matrix.headers[d].size
                             /\ p.v <= d


PrimaryIds == SelectSeq([i \in 1..Len(columns) |-> i], LAMBDA i : columns[i].primary)

Reversed(q) == [i \in 1..Len(q) |-> q[Len(q) + 1 - i]]

TopRingOf(m) ==
    /\ iterate_cells(m, 0, "right", FALSE) = PrimaryIds
    /\ iterate_cells(m, 0, "left", FALSE) = Reversed(PrimaryIds)
    /\ \A c \in 1..Len(columns) :
          ~columns[c].primary => m.cells[c].left = c /\ m.cells[c].right = c

C24_TopRing ==
    /\ phase = "rows" => TopRingOf(proto)
    /\ phase = "built" => TopRingOf(matrix)

\* after end_columns or from_iterable on two primary columns with a
\* secondary column declared between them
C24_Witness ==
    /\ phase = "rows"
    /\ last.op \in {"end_columns", "from_iterable"}
    /\ Len(columns) = 3
    /\ columns[1].primary /\ ~columns[2].primary /\ columns[3].primary
    /\ iterate_cells(proto, 0, "right", FALSE) = <<1, 3>>
    /\ iterate_cells(proto, 0, "left", FALSE) = <<3, 1>>


(***************************************************************************)
(* C25  Row insertion: while rows are added, the walk down from the header *)
(* of every column lists the data cells of the column in the order of      *)
(* their insertion (cells are appended, so in the order of their indexes)  *)
(* and returns; the walk right from the first cell of every row lists the  *)
(* cells of the row in the order of their insertion and returns; the rows  *)
(* are numbered from 1 in the order of insertion; and the cells of the row *)
(* added last are owned, in order, by the columns given to the call (the   *)
(* ids sorted ascending for add_row_index, the columns carrying the values *)
(* for the calls by value) and carry the number of the new row.            *)
(***************************************************************************)
DataCells(mx) == {k \in DOMAIN mx.cells : mx.cells[k].row # Header}

C25_RowInsertion ==
    phase = "rows" =>
        LET data == DataCells(proto)
            n0   == Len0(last.pre.cells)
            ids  == IF last.op = "add_row_index"
                    THEN SortSeq(last.input, LAMBDA a, b : a < b)
                    ELSE last.input
            vals == IF last.op = "add_row"
                    THEN SortSeq(last.input, LAMBDA a, b : a < b)
                    ELSE last.input
        IN  /\ \A c \in DOMAIN proto.columns :
                  iterate_cells(proto, c, "down", FALSE)
                      = AscendingSeq({k \in data : proto.cells[k].column = c})
            /\ \A r \in 1..proto.row_count :
                  LET cs == AscendingSeq({k \in data : proto.cells[k].row = r})
                  IN  /\ cs # <<>>
                      /\ iterate_cells(proto, cs[1], "right", TRUE) = cs
            /\ \A k \in data : proto.cells[k].row \in 1..proto.row_count
            /\ \A k1, k2 \in data : k1 < k2 => proto.cells[k1].row <= proto.cells[k2].row
            /\ proto.row_count = Len(added)
            /\ last.op \in {"add_row_index", "add_sorted_row_index"} =>
                  /\ Len0(proto.cells) = n0 + Len(ids)
                  /\ \A j \in 1..Len(ids) :
                        /\ proto.cells[n0 + j - 1].column = ids[j]
                        /\ proto.cells[n0 + j - 1].row = last.pre.row_count + 1
            /\ last.op \in {"add_row", "add_sorted_row"} =>
                  /\ Len0(proto.cells) = n0 + Len(vals)
                  /\ \A j \in 1..Len(vals) :
                        /\ proto.columns[proto.cells[n0 + j - 1].column].name = Other(vals[j])
                        /\ proto.cells[n0 + j - 1].row = last.pre.row_count + 1

\* the second row was added by ids given in descending order: its cells are
\* threaded as given, and a column holds a cell of each row
C25_Witness ==
    /\ phase = "rows"
    /\ proto.row_count = 2
    /\ last.op = "add_sorted_row_index"
    /\ Len(last.input) = 2
    /\ last.input[1] > last.input[2]
    /\ last.input[2] > 0
    /\ \E c \in 1..Len(columns) : Len(iterate_cells(proto, c, "down", FALSE)) = 2


(***************************************************************************)
(* C26  Directional iteration: for every cell s that lies on the ring of   *)
(* the direction (following the link from s leads back to s), the calls of *)
(* next on iterate_cells(s, direction, include_start) yield s first        *)
(* exactly when include_start is set, then every other cell of the ring    *)
(* once, in link order, never s again, and None at every call after that.  *)
(***************************************************************************)
Directions == {"up", "down", "left", "right"}

OffRing == 0 - 1

\* the cells met following the link of the direction from cell c up to the
\* return to s; OffRing closes the sequence when s is not met within the fuel
RECURSIVE RingFrom(_, _, _, _, _)
RingFrom(m, s, c, dir, fuel) ==
    LET nxt == getter(m.cells[c], dir)
    IN  IF nxt = s
        THEN <<>>
        ELSE IF fuel = 0
             THEN <<OffRing>>
             ELSE <<nxt>> \o RingFrom(m, s, nxt, dir, fuel - 1)

Ring(m, s, dir) == RingFrom(m, s, s, dir, Len0(m.cells))

OnRing(m, s, dir) == OffRing \notin Items(Ring(m, s, dir))

\* the items of the first n calls of next
RECURSIVE Calls(_, _, _, _)
Calls(m, dir, it, n) ==
    IF n = 0
    THEN <<>>
    ELSE LET r == CellIterator_next(m, dir, it)
         IN  <<r.item>> \o Calls(m, dir, r.it, n - 1)

ExtraCalls == 3

C26_DirectionalIteration ==
    phase = "built" =>
        \A s \in DOMAIN matrix.cells : \A dir \in Directions :
            LET ring == Ring(matrix, s, dir)
            IN  OffRing \notin Items(ring) =>
                    /\ s \notin Items(ring)
                    /\ Cardinality(Items(ring)) = Len(ring)
                    /\ \A inc \in BOOLEAN :
                          LET want == (IF inc THEN <<s>> ELSE <<>>) \o ring
                          IN  /\ Calls(matrix, dir, CellIterator_new(s, inc),
                                       Len(want) + ExtraCalls)
                                    = [j \in 1..(Len(want) + ExtraCalls) |->
                                          IF j <= Len(want) THEN Some(want[j]) ELSE None]
                              /\ iterate_cells(matrix, s, dir, inc) = want

\* a column is covered: a cell of it is off the ring of its row, and the
\* iterator is read on a ring of three cells or more, with and without its start
C26_Witness ==
    /\ phase = "built"
    /\ covered # <<>>
    /\ \E t \in DOMAIN matrix.cells : ~OnRing(matrix, t, "right")
    /\ \E s \in DOMAIN matrix.cells :
          /\ OnRing(matrix, s, "down")
          /\ Len(Ring(matrix, s, "down")) >= 2
          /\ Calls(matrix, "down", CellIterator_new(s, TRUE), 4)[1] = Some(s)
          /\ Calls(matrix, "down", CellIterator_new(s, FALSE), 4)[3] = None


(***************************************************************************)
(* C27  LIFO nesting during search: at every pass of the loop of solve()   *)
(* the calls of cover and uncover continue a well-nested sequence: cover   *)
(* is applied to a column not covered at present, uncover to the column    *)
(* covered last among those not yet uncovered.  The calls, replayed on the *)
(* matrix, give the matrix the pass leaves.                                *)
(***************************************************************************)
RECURSIVE WellNested(_, _, _)
WellNested(cov, calls, i) ==
    IF i > Len(calls)
    THEN TRUE
    ELSE IF calls[i].op = "cover"
         THEN /\ calls[i].col \notin Items(cov)
              /\ WellNested(Append(cov, calls[i].col), calls, i + 1)
         ELSE /\ cov # <<>>
              /\ cov[Len(cov)] = calls[i].col
              /\ WellNested(SubSeq(cov, 1, Len(cov) - 1), calls, i + 1)

RECURSIVE Replay(_, _, _)
Replay(m, calls, i) ==
    IF i > Len(calls)
    THEN m
    ELSE Replay(IF calls[i].op = "cover" THEN cover(m, calls[i].col)
                                         ELSE uncover(m, calls[i].col),
                calls, i + 1)

C27_LifoNesting ==
    phase = "solving" =>
        \A num \in RandRange :
            LET calls == solve_calls(SolverState, num)
            IN  /\ WellNested(covered, calls, 1)
                /\ Replay(matrix, calls, 1) = solve_loop(SolverState, num).matrix

\* the pass about to be made undoes a row of three cells under a covered
\* column: two uncover calls, innermost first, and then more calls
C27_Witness ==
    /\ phase = "solving"
    /\ Len(covered) >= 3
    /\ LET calls == solve_calls(SolverState, 0)
       IN  /\ Len(calls) >= 3
           /\ calls[1].op = "uncover" /\ calls[1].col = covered[Len(covered)]
           /\ calls[2].op = "uncover" /\ calls[2].col = covered[Len(covered) - 1]
           /\ calls[1].col # calls[2].col


(***************************************************************************)
(* C28  Stack shape: at every pass of the loop of solve() (the stack is    *)
(* not empty) the bottom element is Root and no other element is; the      *)
(* element p places above the bottom is an Iteration with k = p, whose     *)
(* start_row is the header cell of a column covered at present and whose   *)
(* current_row is a data cell of that column; and a pass that finds Root   *)
(* on top makes no call of uncover.                                        *)
(***************************************************************************)
C28_StackShape ==
    (phase = "solving" /\ stack # <<>>) =>
        /\ stack[1] = Root
        /\ \A p \in 1..(Len(stack) - 1) :
              LET elem == stack[p + 1]
                  col  == matrix.cells[elem.start_row].header
              IN  /\ ~elem.root
                  /\ elem.k = p
                  /\ matrix.cells[elem.start_row].row = Header
                  /\ matrix.headers[col].cell = elem.start_row
                  /\ col \in Items(covered)
                  /\ ~InTopRing(matrix, col)
                  /\ matrix.cells[elem.current_row].row # Header
                  /\ matrix.cells[elem.current_row].header = col
        /\ stack[Len(stack)].root =>
              \A num \in RandRange :
                  LET calls == solve_calls(SolverState, num)
                  IN  /\ \A i \in 1..Len(calls) : calls[i].op # "uncover"
                      /\ Replay(matrix, calls, 1) = solve_loop(SolverState, num).matrix

\* two frames above Root, on different columns, after a solution was found
C28_Witness ==
    /\ phase = "solving"
    /\ Len(stack) = 3
    /\ stack[3].k = 2
    /\ stack[2].start_row # stack[3].start_row
    /\ Len(solutions) >= 1


(***************************************************************************)
(* C29  Stack depth bound: at every point of solve() the Iteration frames  *)
(* on the stack are at most as many as the primary columns of the matrix.  *)
(***************************************************************************)
IterationFrames == {p \in 1..Len(stack) : ~stack[p].root}

PrimaryColumns == {c \in 1..Len(columns) : matrix.headers[c].primary}

C29_DepthBound ==
    phase \in {"solving", "done", "panicked"} =>
        Cardinality(IterationFrames) <= Cardinality(PrimaryColumns)

\* a frame for each primary column of a matrix that has a secondary column
\* too, the search having moved from a first row to a second one
C29_Witness ==
    /\ phase = "solving"
    /\ Cardinality(PrimaryColumns) = 2
    /\ Len(columns) = 3
    /\ Cardinality(IterationFrames) = 2
    /\ \E p \in IterationFrames :
          matrix.cells[stack[p].start_row].down # stack[p].current_row


(***************************************************************************)
(* C30  Prune on an empty column: when the pass of the loop is at a choice *)
(* point (the ring is not empty, advance is not set) and the column chosen *)
(* has size 0, the pass makes no call of cover or uncover, leaves the      *)
(* stack, the recorded rows, the solutions and the whole matrix as they    *)
(* are, and sets advance.                                                  *)
(***************************************************************************)
ChosenColumn(num) == IF choose_min THEN min_column(matrix) ELSE random_column(matrix, num)

C30_PruneOnEmptyColumn ==
    (phase = "solving" /\ stack # <<>> /\ ~RingEmpty(matrix) /\ ~advance) =>
        \A num \in RandRange :
            (ChosenColumn(num).some /\ matrix.headers[ChosenColumn(num).v].size = 0) =>
                LET t == solve_loop(SolverState, num)
                IN  /\ solve_calls(SolverState, num) = <<>>
                    /\ t.matrix = matrix
                    /\ t.stack = stack
                    /\ t.sol_dict = sol_dict
                    /\ t.solutions = solutions
                    /\ t.phase = "solving"
                    /\ t.advance = TRUE

\* the state a prune has left under a frame: advance is set while the ring
\* is not empty and its least column, of size 0, is still linked
C30_Witness ==
    /\ phase = "solving"
    /\ choose_min
    /\ Len(stack) >= 2
    /\ advance
    /\ ~RingEmpty(matrix)
    /\ min_column(matrix).some
    /\ matrix.headers[min_column(matrix).v].size = 0
    /\ sol_dict # Empty0


(***************************************************************************)
(* C31  Recursive solver stop protocol: for every callback (whatever the   *)
(* calls at which it returns true), solve() returns true exactly when the  *)
(* callback was called at least once, and the call at which the callback   *)
(* returns true is the last call of that solve().                          *)
(***************************************************************************)
\* the exact covers of a matrix are pairwise incomparable sets of rows, so
\* with SolveRows rows the callback is called at most SolveRows times
Callbacks == SUBSET (1..SolveRows)

SecondaryOut(m) ==
    \A c \in 1..Len(columns) :
        ~m.headers[c].primary =>
            /\ ~InTopRing(m, c)
            /\ m.cells[m.headers[c].cell].left = m.headers[c].cell
            /\ m.cells[m.headers[c].cell].right = m.headers[c].cell

C32_SecondaryOutOfRing ==
    phase = "solving" =>
        /\ SecondaryOut(matrix)
        /\ \A num \in RandRange :
              LET calls == solve_calls(SolverState, num)
                  ch    == ChosenColumn(num)
              IN  /\ \A i \in 1..Len(calls) :
                        SecondaryOut(Replay(matrix, SubSeq(calls, 1, i), 1))
                  /\ ch.some =>
                        /\ ch.v \in 1..Len(columns)
                        /\ ch.v # matrix.header_key
                        /\ matrix.headers[ch.v].primary
                        /\ matrix.headers[ch.v].name # First

\* a secondary column is covered under a frame, the pass to come uncovers it
\* first, and primary columns are left in the ring for the chooser
C32_Witness ==
    /\ phase = "solving"
    /\ Len(stack) >= 2
    /\ advance
    /\ covered # <<>>
    /\ ~matrix.headers[covered[Len(covered)]].primary
    /\ LET calls == solve_calls(SolverState, 0)
       IN  /\ calls # <<>>
           /\ calls[1] = [op |-> "uncover", col |-> covered[Len(covered)]]
    /\ min_column(matrix).some


(***************************************************************************)
(* C33  Matrix restored after full enumeration: when solve() with          *)
(* return_first = false has returned, the matrix (the four links, row and  *)
(* header of every cell, the size of every column) is equal to the matrix  *)
(* as it was built, before the call.                                       *)
(***************************************************************************)
BuiltMatrix == BuildFrom(columns, [i \in 1..Len(added) |-> AscendingSeq(added[i])])

C33_MatrixRestored ==
    (phase = "done" /\ ~return_first) =>
        /\ matrix = BuiltMatrix
        /\ covered = <<>>

\* a full enumeration that found two solutions on a matrix with a
\* secondary column and three rows
C33_Witness ==
    /\ phase = "done"
    /\ ~return_first
    /\ Len(solutions) = 2
    /\ Len(added) = 3
    /\ \E c \in 1..Len(columns) : ~columns[c].primary /\ matrix.headers[c].size >= 1
    /\ matrix = BuiltMatrix


(***************************************************************************)
(* C34  solve() is repeatable: with choose_min = true and either value of  *)
(* return_first, a second call of solve() on the same solver, which starts *)
(* on the matrix the first call left, returns the sequence of solutions    *)
(* the first call returned.                                                *)
(***************************************************************************)
SolveAgain == RunSolve(NewSolve(matrix, choose_min, return_first))

C34_SolveRepeatable ==
    (phase = "done" /\ choose_min) =>
        /\ SolveAgain.phase = "done"
        /\ SolveAgain.solutions = solutions


(***************************************************************************)
(* C35  No failing unwrap or assertion in search: on a matrix whose rows   *)
(* are nonempty sets of declared columns, with choose_min = true, solve()  *)
(* never panics (min_column yields a column at every choice point, k - 1   *)
(* is never computed with k = 0), and every cell add_to_sol has recorded   *)
(* satisfies its debug assertion: it is not the header cell of its column. *)
(* The entries of sol_dict are never removed, so they are the cells        *)
(* recorded so far.                                                        *)
(***************************************************************************)
C35_NoFailingUnwrap ==
    (choose_min /\ phase \in {"solving", "done", "panicked"}) =>
        /\ phase # "panicked"
        /\ \A k \in DOMAIN sol_dict :
              /\ add_to_sol_assertion(matrix, sol_dict[k])
              /\ matrix.cells[sol_dict[k]].row # Header
        /\ (phase = "solving" /\ stack # <<>> /\ ~advance /\ ~RingEmpty(matrix)) =>
              min_column(matrix).some
        /\ (phase = "solving" /\ stack # <<>> /\ ~stack[Len(stack)].root) =>
              stack[Len(stack)].k >= 1

\* a finished enumeration over three rows that recorded a row at the depths
\* 0, 1 and 2 and found one solution
C35_Witness ==
    /\ phase = "done"
    /\ choose_min
    /\ ~return_first
    /\ DOMAIN sol_dict = {0, 1, 2}
    /\ Len(solutions) = 1
    /\ Len(added) = 3


(***************************************************************************)
(* C36  Frame of cover and uncover: a call of cover(c) or uncover(c)       *)
(* changes no index, row or header of a cell, no index, name, cell or      *)
(* primary flag of a column, no left or right link of a data cell, and the *)
(* left or right link of a header cell only when that cell is the left or  *)
(* right neighbour of the header cell of c; cover(c) leaves the size of c  *)
(* and the up and down links of the cells of c (its header cell included)  *)
(* as they are.                                                            *)
(***************************************************************************)
SameIdentity(m, m2) ==
    /\ DOMAIN m2.cells = DOMAIN m.cells
    /\ DOMAIN m2.headers = DOMAIN m.headers
    /\ \A k \in DOMAIN m.cells :
          /\ m2.cells[k].index = m.cells[k].index
          /\ m2.cells[k].row = m.cells[k].row
          /\ m2.cells[k].header = m.cells[k].header
    /\ \A h \in DOMAIN m.headers :
          /\ m2.headers[h].index = m.headers[h].index
          /\ m2.headers[h].name = m.headers[h].name
          /\ m2.headers[h].cell = m.headers[h].cell
          /\ m2.headers[h].primary = m.headers[h].primary

SameHorizontal(m, m2, c) ==
    LET hc == m.cells[m.headers[c].cell]
    IN  \A k \in DOMAIN m.cells :
            (m2.cells[k].left # m.cells[k].left \/ m2.cells[k].right # m.cells[k].right)
                => /\ m.cells[k].row = Header
                   /\ k \in {hc.left, hc.right}

OwnColumnKept(m, m2, c) ==
    /\ m2.headers[c].size = m.headers[c].size
    /\ \A k \in DOMAIN m.cells :
          m.cells[k].header = c =>
              /\ m2.cells[k].up = m.cells[k].up
              /\ m2.cells[k].down = m.cells[k].down

C36_FrameOfCoverUncover ==
    [][(phase = "built" /\ last'.op \in {"cover", "uncover"}) =>
          LET c == last'.input[1]
          IN  /\ SameIdentity(matrix, matrix')
              /\ SameHorizontal(matrix, matrix', c)
              /\ last'.op = "cover" => OwnColumnKept(matrix, matrix', c)]_vars

\* a primary column holding two rows was covered under another covered
\* column and has just been uncovered
C36_Witness ==
    /\ phase = "built"
    /\ last.op = "uncover"
    /\ Len(covered) = 1
    /\ LET c == last.input[1]
       IN  /\ matrix.headers[c].primary
           /\ matrix.headers[c].size = 2
           /\ InTopRing(matrix, c)
    /\ matrix # BuiltMatrix


(***************************************************************************)
(* C37  iter_rows() is independent of the search state: in every state     *)
(* reached by calls of cover and uncover, iter_rows() read to its end      *)
(* yields the sequence of row sets it yields on the matrix as built, which *)
(* is the sequence of the rows added.                                      *)
(***************************************************************************)
Panicked == <<"panicked">>

\* the items of iter_rows() from position lst to the first None
RECURSIVE iter_rows_from(_, _)
iter_rows_from(m, lst) ==
    LET r == RowIterator_next(m, lst)
    IN  IF r.panic
        THEN Panicked
        ELSE IF ~r.item.some
             THEN <<>>
             ELSE <<r.item.v>> \o iter_rows_from(m, r.last)

C37_IterRowsIndependent ==
    phase = "built" =>
        /\ iter_rows_from(matrix, 0) = iter_rows_from(BuiltMatrix, 0)
        /\ iter_rows_from(matrix, 0) = added

\* two columns are covered, one under the other, rows of two cells are
\* taken out of a column still in the ring, and iter_rows() yields three rows
C37_Witness ==
    /\ phase = "built"
    /\ Len(covered) = 2
    /\ Len(added) = 3
    /\ \E i \in 1..3 : Cardinality(added[i]) >= 2
    /\ \E c \in 1..Len(columns) :
          /\ c \notin Items(covered)
          /\ matrix.headers[c].size < BuiltMatrix.headers[c].size
    /\ Len(iter_rows_from(matrix, 0)) = 3


(***************************************************************************)
(* C38  Empty rows are rejected: a row of no items given to add_row,       *)
(* add_sorted_row, add_row_index or add_sorted_row_index makes the call    *)
(* fail, so every row the builder or a built matrix counts has a cell, and *)
(* the count of rows is the number of the rows accepted.                   *)
(***************************************************************************)
RowCalls == {"add_row", "add_sorted_row", "add_row_index", "add_sorted_row_index"}

C38_EmptyRowsRejected ==
    /\ (last.op \in RowCalls /\ last.input = <<>>) => phase = "panicked"
    /\ phase = "rows" =>
          /\ proto.row_count = Len(added)
          /\ \A r \in 1..proto.row_count :
                \E k \in DOMAIN proto.cells : proto.cells[k].row = r
    /\ (phase = "built" /\ last.op = "build") =>
          /\ matrix.rows = Len(added)
          /\ \A r \in 1..matrix.rows :
                \E k \in DOMAIN matrix.cells : matrix.cells[k].row = r
    /\ \A i \in 1..Len(added) : added[i] # {}

\* an empty row given to add_row after a row was accepted: the call failed
C38_Witness ==
    /\ phase = "panicked"
    /\ last.op = "add_row"
    /\ last.input = <<>>
    /\ last.pre.row_count = 1
    /\ Len(added) = 1

====
